---------------------------- MODULE Spec2Model ----------------------------
(***************************************************************************)
(* The conversational shopping backend of flask-backend/app.py: the chat   *)
(* endpoint with its intent classifier, entity extractor, product search,  *)
(* add-to-cart handler and the cart endpoints, over the process-wide cart  *)
(* and conversation log.                                                   *)
(*                                                                         *)
(* Python strings are TLA+ strings (Len, SubSeq and \o work on them), so   *)
(* substring tests, lower-casing, splitting and regular-expression search  *)
(* are computed character by character.  Floating-point scores are kept as *)
(* integers in hundredths (0.3 is 30), ratings and confidences in tenths   *)
(* (4.5 is 45, 0.8 is 8).                                                  *)
(***************************************************************************)
EXTENDS Integers, Sequences, FiniteSets, TLC

VARIABLES
  model,                 \* TRUE iff the Gemini model object is configured
  cart_items,            \* the global cart list
  conversation_history,  \* the global conversation log
  reply,                 \* the HTTP response of the last request
  generated,             \* what model.generate_content did in the last turn
  user_message,          \* the text of the direct calls of the two classifiers
  result,                \* what the last direct call returned
  in_flight              \* the /api/cart/add requests whose threads are running

vars == <<model, cart_items, conversation_history, reply, generated,
          user_message, result, in_flight>>

\* Python's None.
None == "None"

-----------------------------------------------------------------------------
(* Python string primitives *)

UpperChars == {"A","B","C","D","E","F","G","H","I","J","K","L","M",
               "N","O","P","Q","R","S","T","U","V","W","X","Y","Z"}
LowerChars == {"a","b","c","d","e","f","g","h","i","j","k","l","m",
               "n","o","p","q","r","s","t","u","v","w","x","y","z"}
DigitChars == {"0","1","2","3","4","5","6","7","8","9"}
SpaceChars == {" "}

ToLower ==
  [c \in UpperChars |->
     CASE c = "A" -> "a" [] c = "B" -> "b" [] c = "C" -> "c" [] c = "D" -> "d"
       [] c = "E" -> "e" [] c = "F" -> "f" [] c = "G" -> "g" [] c = "H" -> "h"
       [] c = "I" -> "i" [] c = "J" -> "j" [] c = "K" -> "k" [] c = "L" -> "l"
       [] c = "M" -> "m" [] c = "N" -> "n" [] c = "O" -> "o" [] c = "P" -> "p"
       [] c = "Q" -> "q" [] c = "R" -> "r" [] c = "S" -> "s" [] c = "T" -> "t"
       [] c = "U" -> "u" [] c = "V" -> "v" [] c = "W" -> "w" [] c = "X" -> "x"
       [] c = "Y" -> "y" [] c = "Z" -> "z"]

ToUpper == [c \in LowerChars |-> CHOOSE u \in UpperChars : ToLower[u] = c]

CharAt(s, i) == SubSeq(s, i, i)

\* s[i-1:j] of Python (1-based, inclusive, clamped to the string)
Slice(s, i, j) ==
  IF i > j \/ i > Len(s) THEN "" ELSE SubSeq(s, i, IF j <= Len(s) THEN j ELSE Len(s))

\* str.lower(), on the characters i..j of s (halved, so that the evaluation
\* nests only logarithmically deep)
RECURSIVE LowerRange(_, _, _)
LowerRange(s, i, j) ==
  IF i > j THEN ""
  ELSE IF i = j
       THEN (IF CharAt(s, i) \in UpperChars THEN ToLower[CharAt(s, i)] ELSE CharAt(s, i))
  ELSE LowerRange(s, i, (i + j) \div 2) \o LowerRange(s, ((i + j) \div 2) + 1, j)
Lower(s) == LowerRange(s, 1, Len(s))

\* str.title(): a letter that follows a non-letter is upper-cased, every
\* other letter lower-cased
RECURSIVE TitleRange(_, _, _)
TitleRange(s, i, j) ==
  IF i > j THEN ""
  ELSE IF i = j
       THEN LET c == CharAt(s, i)
            IN  IF i = 1 \/ CharAt(s, i - 1) \notin (UpperChars \cup LowerChars)
                THEN (IF c \in LowerChars THEN ToUpper[c] ELSE c)
                ELSE (IF c \in UpperChars THEN ToLower[c] ELSE c)
  ELSE TitleRange(s, i, (i + j) \div 2) \o TitleRange(s, ((i + j) \div 2) + 1, j)
Title(s) == TitleRange(s, 1, Len(s))

\* str.strip()
Strip(s) ==
  LET keep == {i \in 1..Len(s) : CharAt(s, i) \notin SpaceChars}
  IN  IF keep = {} THEN ""
      ELSE SubSeq(s, CHOOSE i \in keep : \A j \in keep : i <= j,
                     CHOOSE i \in keep : \A j \in keep : j <= i)

\* `p in s` for strings
Contains(s, p) ==
  \E i \in 1..(Len(s) - Len(p) + 1) : SubSeq(s, i, i + Len(p) - 1) = p

\* str.find(p) + 1, or 0 when p does not occur
Find(s, p) ==
  IF Contains(s, p)
  THEN CHOOSE i \in 1..(Len(s) - Len(p) + 1) :
         /\ SubSeq(s, i, i + Len(p) - 1) = p
         /\ \A j \in 1..(i - 1) : SubSeq(s, j, j + Len(p) - 1) # p
  ELSE 0

\* the k-th least element of a set of numbers
KthLeast(S, k) == CHOOSE x \in S : Cardinality({y \in S : y <= x}) = k

\* list(f) for a function f on 1..n: the same sequence, as a list value
List(f) == SubSeq(f, 1, Len(f))

\* str.split(): the maximal runs of non-space characters, in order
Split(s) ==
  LET starts == {i \in 1..Len(s) : /\ CharAt(s, i) \notin SpaceChars
                                    /\ (i = 1 \/ CharAt(s, i - 1) \in SpaceChars)}
      ends   == {i \in 1..Len(s) : /\ CharAt(s, i) \notin SpaceChars
                                    /\ (i = Len(s) \/ CharAt(s, i + 1) \in SpaceChars)}
  IN  List([k \in 1..Cardinality(starts) |->
              SubSeq(s, KthLeast(starts, k), KthLeast(ends, k))])

\* ' '.join(words)
RECURSIVE Join(_)
Join(words) ==
  IF words = <<>> THEN ""
  ELSE IF Len(words) = 1 THEN words[1]
  ELSE words[1] \o " " \o Join(Tail(words))

\* int(s) for a string of decimal digits
DigitValue ==
  [c \in DigitChars |->
     CASE c = "0" -> 0 [] c = "1" -> 1 [] c = "2" -> 2 [] c = "3" -> 3
       [] c = "4" -> 4 [] c = "5" -> 5 [] c = "6" -> 6 [] c = "7" -> 7
       [] c = "8" -> 8 [] c = "9" -> 9]
RECURSIVE ParseInt(_)
ParseInt(s) ==
  IF s = "" THEN 0
  ELSE 10 * ParseInt(SubSeq(s, 1, Len(s) - 1)) + DigitValue[CharAt(s, Len(s))]

\* any(k in s for k in keywords)
ContainsAny(s, keywords) == \E k \in 1..Len(keywords) : Contains(s, keywords[k])

\* min(a, b)
Min(a, b) == IF a <= b THEN a ELSE b

-----------------------------------------------------------------------------
(* re.search for the price patterns.  Each pattern is a literal prefix, a  *)
(* group (\d+), and for the two-group patterns a literal separator and a   *)
(* second group (\d+).  \d+ is greedy and a digit never matches the        *)
(* character after it, so a group is the maximal run of digits at its      *)
(* position; the search returns the match with the least start position.   *)

\* the index of the last digit of the maximal digit run starting at i, i - 1 when there is none
RECURSIVE DigitRunEnd(_, _)
DigitRunEnd(s, i) ==
  IF i <= Len(s) /\ CharAt(s, i) \in DigitChars THEN DigitRunEnd(s, i + 1) ELSE i - 1

\* the groups of the match of pattern at position i of s, <<>> when it does not match there
MatchAt(pattern, s, i) ==
  LET a1 == i + Len(pattern.pre)
      e1 == DigitRunEnd(s, a1)
      a2 == e1 + 1 + Len(pattern.sep)
      e2 == DigitRunEnd(s, a2)
  IN  IF Slice(s, i, a1 - 1) # pattern.pre \/ e1 < a1 THEN <<>>
      ELSE IF pattern.groups = 1 THEN <<SubSeq(s, a1, e1)>>
      ELSE IF Slice(s, e1 + 1, a2 - 1) # pattern.sep \/ e2 < a2 THEN <<>>
      ELSE <<SubSeq(s, a1, e1), SubSeq(s, a2, e2)>>

\* match.groups() of re.search(pattern, s), <<>> when re.search returns None
re_search(pattern, s) ==
  LET hits == {i \in 1..Len(s) : MatchAt(pattern, s, i) # <<>>}
  IN  IF hits = {} THEN <<>>
      ELSE MatchAt(pattern, s, CHOOSE i \in hits : \A j \in hits : i <= j)

-----------------------------------------------------------------------------
(* get_mock_products(): the catalog.  image_url is left out; nothing reads it *)
(* but the copies into cart entries and responses.                         *)

mock_products ==
  <<
    [id |-> "prod_001", name |-> "Sony WH-CH720N Wireless Headphones", price |-> 2999, category |-> "Electronics",
     description |-> "Premium wireless noise-canceling headphones with 35-hour battery life",
     tags |-> <<"bluetooth", "wireless", "noise-canceling">>, stock |-> 50, rating |-> 45],
    [id |-> "prod_002", name |-> "Apple iPhone 15", price |-> 79999, category |-> "Electronics",
     description |-> "Latest iPhone with advanced camera system and A17 chip",
     tags |-> <<"smartphone", "apple", "camera">>, stock |-> 25, rating |-> 48],
    [id |-> "prod_003", name |-> "Wireless Gaming Mouse", price |-> 1999, category |-> "Electronics",
     description |-> "High-precision wireless gaming mouse with RGB lighting",
     tags |-> <<"gaming", "wireless", "precision">>, stock |-> 40, rating |-> 44],
    [id |-> "prod_004", name |-> "Samsung Galaxy S24 Ultra", price |-> 84999, category |-> "Electronics",
     description |-> "Flagship Android smartphone with 200MP camera",
     tags |-> <<"smartphone", "android", "camera">>, stock |-> 30, rating |-> 47],
    [id |-> "prod_005", name |-> "Dell XPS 13 Laptop", price |-> 109999, category |-> "Electronics",
     description |-> "Ultra-thin laptop with Intel i7 processor",
     tags |-> <<"laptop", "dell", "ultrabook">>, stock |-> 20, rating |-> 46],
    [id |-> "prod_006", name |-> "JBL Flip 6 Bluetooth Speaker", price |-> 8999, category |-> "Electronics",
     description |-> "Portable waterproof speaker with deep bass",
     tags |-> <<"speaker", "bluetooth", "portable">>, stock |-> 60, rating |-> 44],
    [id |-> "prod_007", name |-> "Mi Smart Band 7", price |-> 3499, category |-> "Electronics",
     description |-> "Fitness tracker with heart rate monitor",
     tags |-> <<"fitness", "tracker", "smart">>, stock |-> 80, rating |-> 43],
    [id |-> "prod_008", name |-> "Canon EOS 1500D DSLR Camera", price |-> 42999, category |-> "Electronics",
     description |-> "Entry-level DSLR with 24MP sensor",
     tags |-> <<"camera", "dslr", "canon">>, stock |-> 15, rating |-> 45],
    [id |-> "prod_009", name |-> "Amazon Echo Dot (5th Gen)", price |-> 4499, category |-> "Electronics",
     description |-> "Smart speaker with Alexa voice assistant",
     tags |-> <<"smart", "speaker", "alexa">>, stock |-> 70, rating |-> 44],
    [id |-> "prod_010", name |-> "HP DeskJet 2331 Printer", price |-> 3999, category |-> "Electronics",
     description |-> "All-in-one color printer for home use",
     tags |-> <<"printer", "hp", "color">>, stock |-> 35, rating |-> 42],
    [id |-> "prod_011", name |-> "Nike Air Max 270", price |-> 8995, category |-> "Footwear",
     description |-> "Comfortable running shoes with Air Max technology",
     tags |-> <<"running", "sports", "comfortable">>, stock |-> 30, rating |-> 43],
    [id |-> "prod_012", name |-> "Adidas Ultraboost 22", price |-> 12999, category |-> "Footwear",
     description |-> "High-performance running shoes with Boost cushioning",
     tags |-> <<"running", "adidas", "boost">>, stock |-> 25, rating |-> 46],
    [id |-> "prod_013", name |-> "Puma Smash v2 Sneakers", price |-> 2999, category |-> "Footwear",
     description |-> "Classic sneakers for everyday wear",
     tags |-> <<"sneakers", "puma", "casual">>, stock |-> 40, rating |-> 42],
    [id |-> "prod_014", name |-> "Skechers Go Walk 5", price |-> 4999, category |-> "Footwear",
     description |-> "Lightweight walking shoes with memory foam",
     tags |-> <<"walking", "skechers", "memory-foam">>, stock |-> 35, rating |-> 44],
    [id |-> "prod_015", name |-> "Bata Formal Leather Shoes", price |-> 2599, category |-> "Footwear",
     description |-> "Elegant formal shoes for office wear",
     tags |-> <<"formal", "leather", "bata">>, stock |-> 20, rating |-> 41],
    [id |-> "prod_016", name |-> "Cotton T-Shirt", price |-> 599, category |-> "Clothing",
     description |-> "100% cotton comfortable t-shirt in various colors",
     tags |-> <<"cotton", "comfortable", "casual">>, stock |-> 75, rating |-> 42],
    [id |-> "prod_017", name |-> "Levi's 511 Slim Jeans", price |-> 2499, category |-> "Clothing",
     description |-> "Slim fit jeans for men",
     tags |-> <<"jeans", "levis", "slim-fit">>, stock |-> 50, rating |-> 45],
    [id |-> "prod_018", name |-> "Raymond Formal Shirt", price |-> 1299, category |-> "Clothing",
     description |-> "Premium formal shirt for office wear",
     tags |-> <<"formal", "shirt", "raymond">>, stock |-> 40, rating |-> 43],
    [id |-> "prod_019", name |-> "Allen Solly Polo T-Shirt", price |-> 899, category |-> "Clothing",
     description |-> "Classic polo t-shirt for men",
     tags |-> <<"polo", "allen-solly", "casual">>, stock |-> 60, rating |-> 44],
    [id |-> "prod_020", name |-> "W Women Kurta", price |-> 1599, category |-> "Clothing",
     description |-> "Elegant kurta for women",
     tags |-> <<"kurta", "women", "w">>, stock |-> 45, rating |-> 45],
    [id |-> "prod_021", name |-> "Instant Pasta - Maggi", price |-> 15, category |-> "Groceries",
     description |-> "Quick 2-minute pasta with masala flavor",
     tags |-> <<"instant", "pasta", "quick-meal">>, stock |-> 100, rating |-> 41],
    [id |-> "prod_022", name |-> "Tata Salt", price |-> 25, category |-> "Groceries",
     description |-> "Iodized salt for daily use",
     tags |-> <<"salt", "tata", "groceries">>, stock |-> 200, rating |-> 43],
    [id |-> "prod_023", name |-> "Aashirvaad Atta 5kg", price |-> 299, category |-> "Groceries",
     description |-> "Whole wheat flour for soft rotis",
     tags |-> <<"atta", "wheat", "groceries">>, stock |-> 80, rating |-> 44],
    [id |-> "prod_024", name |-> "Amul Butter 500g", price |-> 275, category |-> "Groceries",
     description |-> "Fresh and creamy butter",
     tags |-> <<"butter", "amul", "dairy">>, stock |-> 60, rating |-> 45],
    [id |-> "prod_025", name |-> "Nestle Everyday Milk Powder", price |-> 399, category |-> "Groceries",
     description |-> "Milk powder for tea and coffee",
     tags |-> <<"milk", "powder", "nestle">>, stock |-> 90, rating |-> 42],
    [id |-> "prod_026", name |-> "Philips HD9200 Air Fryer", price |-> 8999, category |-> "Home & Kitchen",
     description |-> "Healthy air fryer with rapid air technology, 4L capacity",
     tags |-> <<"air-fryer", "philips", "healthy-cooking", "kitchen">>, stock |-> 25, rating |-> 46],
    [id |-> "prod_027", name |-> "Wonderchef Prato Air Fryer", price |-> 5999, category |-> "Home & Kitchen",
     description |-> "Compact air fryer with digital display, 3L capacity",
     tags |-> <<"air-fryer", "wonderchef", "compact", "digital">>, stock |-> 30, rating |-> 44],
    [id |-> "prod_028", name |-> "Prestige Non-Stick Fry Pan", price |-> 799, category |-> "Home & Kitchen",
     description |-> "Durable non-stick fry pan for healthy cooking",
     tags |-> <<"fry-pan", "prestige", "non-stick">>, stock |-> 40, rating |-> 43],
    [id |-> "prod_029", name |-> "Milton Thermosteel Flask 1L", price |-> 699, category |-> "Home & Kitchen",
     description |-> "Keeps beverages hot or cold for hours",
     tags |-> <<"flask", "milton", "thermosteel">>, stock |-> 35, rating |-> 44],
    [id |-> "prod_030", name |-> "Cello Plastic Water Bottle Set", price |-> 349, category |-> "Home & Kitchen",
     description |-> "Set of 6 BPA-free water bottles",
     tags |-> <<"water-bottle", "cello", "plastic">>, stock |-> 50, rating |-> 42],
    [id |-> "prod_031", name |-> "Bajaj Majesty Air Fryer", price |-> 4999, category |-> "Home & Kitchen",
     description |-> "Affordable air fryer with 2.5L capacity and preset cooking modes",
     tags |-> <<"air-fryer", "bajaj", "affordable", "preset-modes">>, stock |-> 35, rating |-> 42],
    [id |-> "prod_032", name |-> "Philips LED Bulb 9W", price |-> 99, category |-> "Home & Kitchen",
     description |-> "Energy-saving LED bulb",
     tags |-> <<"led", "bulb", "philips">>, stock |-> 100, rating |-> 45],
    [id |-> "prod_033", name |-> "Havells Ceiling Fan", price |-> 2499, category |-> "Home & Kitchen",
     description |-> "High-speed ceiling fan for cool air",
     tags |-> <<"fan", "havells", "ceiling">>, stock |-> 20, rating |-> 43],
    [id |-> "prod_034", name |-> "Nivea Men Face Wash", price |-> 199, category |-> "Beauty & Personal Care",
     description |-> "Deep cleansing face wash for men",
     tags |-> <<"face-wash", "nivea", "men">>, stock |-> 60, rating |-> 42],
    [id |-> "prod_035", name |-> "Lakme Absolute Lipstick", price |-> 499, category |-> "Beauty & Personal Care",
     description |-> "Long-lasting matte lipstick",
     tags |-> <<"lipstick", "lakme", "beauty">>, stock |-> 45, rating |-> 44],
    [id |-> "prod_036", name |-> "Dove Intense Repair Shampoo", price |-> 349, category |-> "Beauty & Personal Care",
     description |-> "Shampoo for damaged hair",
     tags |-> <<"shampoo", "dove", "hair">>, stock |-> 70, rating |-> 43],
    [id |-> "prod_037", name |-> "Gillette Fusion Razor", price |-> 299, category |-> "Beauty & Personal Care",
     description |-> "5-blade razor for smooth shave",
     tags |-> <<"razor", "gillette", "shave">>, stock |-> 55, rating |-> 45],
    [id |-> "prod_038", name |-> "Himalaya Neem Face Pack", price |-> 199, category |-> "Beauty & Personal Care",
     description |-> "Herbal face pack for clear skin",
     tags |-> <<"face-pack", "himalaya", "herbal">>, stock |-> 40, rating |-> 42],
    [id |-> "prod_039", name |-> "LEGO Classic Bricks Set", price |-> 1499, category |-> "Toys & Baby Products",
     description |-> "Creative building blocks for kids",
     tags |-> <<"lego", "blocks", "kids">>, stock |-> 30, rating |-> 47],
    [id |-> "prod_040", name |-> "Hot Wheels Car Pack", price |-> 499, category |-> "Toys & Baby Products",
     description |-> "Set of 5 die-cast cars",
     tags |-> <<"hot-wheels", "cars", "toys">>, stock |-> 50, rating |-> 45],
    [id |-> "prod_041", name |-> "Fisher-Price Baby Rattle", price |-> 199, category |-> "Toys & Baby Products",
     description |-> "Colorful rattle for infants",
     tags |-> <<"rattle", "fisher-price", "baby">>, stock |-> 60, rating |-> 43],
    [id |-> "prod_042", name |-> "Barbie Dreamhouse Doll", price |-> 2999, category |-> "Toys & Baby Products",
     description |-> "Barbie doll with accessories",
     tags |-> <<"barbie", "doll", "toys">>, stock |-> 25, rating |-> 46],
    [id |-> "prod_043", name |-> "Mee Mee Baby Diapers", price |-> 499, category |-> "Toys & Baby Products",
     description |-> "Pack of 40 ultra-soft diapers",
     tags |-> <<"diapers", "mee-mee", "baby">>, stock |-> 80, rating |-> 44],
    [id |-> "prod_044", name |-> "The Alchemist by Paulo Coelho", price |-> 299, category |-> "Books & Stationery",
     description |-> "Inspirational novel",
     tags |-> <<"book", "alchemist", "paulo-coelho">>, stock |-> 40, rating |-> 48],
    [id |-> "prod_045", name |-> "Classmate Spiral Notebook", price |-> 79, category |-> "Books & Stationery",
     description |-> "200 pages ruled notebook",
     tags |-> <<"notebook", "classmate", "stationery">>, stock |-> 100, rating |-> 45],
    [id |-> "prod_046", name |-> "Faber-Castell Color Pencils", price |-> 199, category |-> "Books & Stationery",
     description |-> "Pack of 24 color pencils",
     tags |-> <<"color-pencils", "faber-castell", "stationery">>, stock |-> 60, rating |-> 46],
    [id |-> "prod_047", name |-> "Camlin Geometry Box", price |-> 149, category |-> "Books & Stationery",
     description |-> "Complete geometry set for students",
     tags |-> <<"geometry-box", "camlin", "stationery">>, stock |-> 80, rating |-> 44],
    [id |-> "prod_048", name |-> "Pilot V5 Hi-Tecpoint Pen", price |-> 35, category |-> "Books & Stationery",
     description |-> "Smooth writing pen",
     tags |-> <<"pen", "pilot", "stationery">>, stock |-> 120, rating |-> 43],
    [id |-> "prod_049", name |-> "Yonex GR 303 Badminton Racquet", price |-> 599, category |-> "Sports & Fitness",
     description |-> "Lightweight racquet for beginners",
     tags |-> <<"badminton", "yonex", "sports">>, stock |-> 30, rating |-> 45],
    [id |-> "prod_050", name |-> "Nivia Football Size 5", price |-> 499, category |-> "Sports & Fitness",
     description |-> "Durable football for outdoor play",
     tags |-> <<"football", "nivia", "sports">>, stock |-> 40, rating |-> 44],
    [id |-> "prod_051", name |-> "Cosco Yoga Mat", price |-> 799, category |-> "Sports & Fitness",
     description |-> "Non-slip yoga mat for workouts",
     tags |-> <<"yoga-mat", "cosco", "fitness">>, stock |-> 50, rating |-> 46],
    [id |-> "prod_052", name |-> "SG Cricket Bat", price |-> 1499, category |-> "Sports & Fitness",
     description |-> "English willow cricket bat",
     tags |-> <<"cricket-bat", "sg", "sports">>, stock |-> 20, rating |-> 47],
    [id |-> "prod_053", name |-> "Decathlon Dumbbell Set 10kg", price |-> 1299, category |-> "Sports & Fitness",
     description |-> "Set of 2 dumbbells for home workouts",
     tags |-> <<"dumbbell", "decathlon", "fitness">>, stock |-> 25, rating |-> 45]
  >>

-----------------------------------------------------------------------------
(* Entity Extractor and Intent Classifier *)

category_keywords ==
  << [category |-> "Electronics",
      keywords |-> <<"phone", "smartphone", "mobile", "laptop", "computer",
                     "headphones", "earphones", "speaker", "camera", "watch">>],
     [category |-> "Footwear",
      keywords |-> <<"shoes", "sneakers", "running", "sports", "formal", "casual">>],
     [category |-> "Clothing",
      keywords |-> <<"shirt", "t-shirt", "jeans", "pants", "dress", "kurta",
                     "polo", "clothing">>],
     [category |-> "Home & Kitchen",
      keywords |-> <<"air fryer", "fryer", "pan", "cookware", "kitchen",
                     "appliance", "bulb", "fan">>],
     [category |-> "Beauty & Personal Care",
      keywords |-> <<"face wash", "shampoo", "lipstick", "skincare",
                     "cosmetics", "razor">>],
     [category |-> "Sports & Fitness",
      keywords |-> <<"sports", "fitness", "gym", "yoga", "cricket", "football",
                     "badminton", "dumbbells">>],
     [category |-> "Books & Stationery",
      keywords |-> <<"book", "notebook", "pen", "pencil", "stationery", "novel">>],
     [category |-> "Toys & Baby Products",
      keywords |-> <<"baby", "kids", "toys", "diapers", "children", "lego", "doll">>],
     [category |-> "Groceries",
      keywords |-> <<"groceries", "food", "salt", "atta", "butter", "milk">>] >>

price_patterns ==
  << [pre |-> "under ",     groups |-> 1, sep |-> ""],
     [pre |-> "below ",     groups |-> 1, sep |-> ""],
     [pre |-> "less than ", groups |-> 1, sep |-> ""],
     [pre |-> "",           groups |-> 2, sep |-> " to "],
     [pre |-> "between ",   groups |-> 2, sep |-> " and "] >>

brands == <<"nike", "adidas", "apple", "samsung", "sony", "dell", "hp",
            "lenovo", "philips", "bajaj">>

\* the dict {} of Python
EmptyDict == [k \in {} |-> None]

\* the category loop without its break: the last category, in table order,
\* one of whose keywords occurs
ExtractCategoryLast(user_msg_lower, i) ==
  LET hits == {k \in i..Len(category_keywords) :
                 ContainsAny(user_msg_lower, category_keywords[k].keywords)}
  IN  IF hits = {} THEN EmptyDict
      ELSE [category |-> category_keywords[CHOOSE k \in hits : \A j \in hits : j <= k].category]

\* lines 289-292: the first category, in table order, one of whose keywords occurs
RECURSIVE ExtractCategory(_, _)
ExtractCategory(user_msg_lower, i) ==
  IF i > Len(category_keywords) THEN EmptyDict
  ELSE IF ContainsAny(user_msg_lower, category_keywords[i].keywords)
       THEN [category |-> category_keywords[i].category]
       ELSE ExtractCategory(user_msg_lower, i + 1)

\* the price loop without its break: every pattern that matches is applied,
\* a later one overwriting the keys of an earlier one
RECURSIVE ExtractPriceAll(_, _)
ExtractPriceAll(user_msg_lower, i) ==
  IF i > Len(price_patterns) THEN EmptyDict
  ELSE LET groups == re_search(price_patterns[i], user_msg_lower)
       IN  ExtractPriceAll(user_msg_lower, i + 1) @@
             (IF groups = <<>> THEN EmptyDict
              ELSE IF Len(groups) = 1 THEN [max_price |-> ParseInt(groups[1])]
              ELSE [min_price |-> ParseInt(groups[1]), max_price |-> ParseInt(groups[2])])

\* lines 304-312: the first price pattern, in list order, that matches
RECURSIVE ExtractPrice(_, _)
ExtractPrice(user_msg_lower, i) ==
  IF i > Len(price_patterns) THEN EmptyDict
  ELSE LET groups == re_search(price_patterns[i], user_msg_lower)
       IN  IF groups # <<>>
           THEN IF Len(groups) = 1
                THEN [max_price |-> ParseInt(groups[1])]
                ELSE [min_price |-> ParseInt(groups[1]), max_price |-> ParseInt(groups[2])]
           ELSE ExtractPrice(user_msg_lower, i + 1)

\* lines 315-319: the first brand, in list order, that occurs
RECURSIVE ExtractBrand(_, _)
ExtractBrand(user_msg_lower, i) ==
  IF i > Len(brands) THEN EmptyDict
  ELSE IF Contains(user_msg_lower, brands[i])
       THEN [brand |-> Title(brands[i])]
       ELSE ExtractBrand(user_msg_lower, i + 1)

\* lines 271-321.  The entities dict is a function whose domain is the set
\* of keys present.
extract_entities(message) ==
  LET user_msg_lower == Lower(message)
  IN  ExtractCategory(user_msg_lower, 1) @@ ExtractPrice(user_msg_lower, 1)
        @@ ExtractBrand(user_msg_lower, 1)

intent_patterns ==
  << [type |-> "greeting",
      patterns |-> <<"hi", "hello", "hey", "good morning", "good evening",
                     "good afternoon">>],
     [type |-> "add_to_cart",
      patterns |-> <<"add to cart", "buy", "purchase", "order", "add this",
                     "take this">>],
     [type |-> "cart_view",
      patterns |-> <<"my cart", "cart", "what's in cart", "show cart", "view cart">>],
     [type |-> "product_details",
      patterns |-> <<"tell me more", "details", "specifications", "features",
                     "info about">>],
     [type |-> "recommendations",
      patterns |-> <<"recommend", "suggest", "what should i", "best for",
                     "top rated">>],
     [type |-> "price_inquiry",
      patterns |-> <<"price", "cost", "how much", "budget", "under", "below">>],
     [type |-> "compare",
      patterns |-> <<"compare", "difference", "vs", "better than", "which is best">>],
     [type |-> "product_search",
      patterns |-> <<"show me", "find", "search", "looking for", "need", "want",
                     "get me">>] >>

\* the intent loop without its break: the last intent, in table order, one
\* of whose patterns occurs
DetectIntentLast(user_msg_lower, i) ==
  LET hits == {k \in i..Len(intent_patterns) :
                 ContainsAny(user_msg_lower, intent_patterns[k].patterns)}
  IN  IF hits = {} THEN None
      ELSE intent_patterns[CHOOSE k \in hits : \A j \in hits : j <= k].type

\* lines 255-261: the first intent, in table order, one of whose patterns occurs
RECURSIVE DetectIntent(_, _)
DetectIntent(user_msg_lower, i) ==
  IF i > Len(intent_patterns) THEN None
  ELSE IF ContainsAny(user_msg_lower, intent_patterns[i].patterns)
       THEN intent_patterns[i].type
       ELSE DetectIntent(user_msg_lower, i + 1)

\* a classifier with hidden state: it answers cart_view while the cart holds
\* something
analyze_user_intent_by_cart(message) ==
  [type |-> IF cart_items # <<>> THEN "cart_view" ELSE "product_search",
   confidence |-> 8, entities |-> extract_entities(message)]

\* a classifier that labels a message general when no pattern occurs
analyze_user_intent_or_general(message) ==
  LET user_msg_lower == Strip(Lower(message))
      intent_type    == DetectIntent(user_msg_lower, 1)
  IN  [type |-> IF intent_type # None THEN intent_type ELSE "general",
       confidence |-> IF intent_type # None THEN 8 ELSE 6,
       entities |-> extract_entities(message)]

\* lines 238-268
analyze_user_intent(message) ==
  LET user_msg_lower == Strip(Lower(message))
      intent_type    == DetectIntent(user_msg_lower, 1)
  IN  IF intent_type # None
      THEN [type |-> intent_type, confidence |-> 8,
            entities |-> extract_entities(message)]
      ELSE [type |-> "product_search", confidence |-> 6,
            entities |-> extract_entities(message)]

-----------------------------------------------------------------------------
(* Product search: Relevance Scorer, Basic Keyword Matcher, AI-assisted search *)

\* f"{name} {description} {' '.join(tags)}" of calculate_product_relevance
ScorerText(product) ==
  product.name \o " " \o product.description \o " " \o Join(product.tags)

\* lines 550-552: 0.2 for every query word longer than 2 found in the product text
RECURSIVE KeywordScore(_, _, _)
KeywordScore(user_words, text_lower, per_word) ==
  IF user_words = <<>> THEN 0
  ELSE (IF Len(Head(user_words)) > 2 /\ Contains(text_lower, Head(user_words))
        THEN per_word ELSE 0)
       + KeywordScore(Tail(user_words), text_lower, per_word)

\* a score that is not clamped to 1.0
calculate_product_relevance_unclamped(message, product, entities) ==
  LET user_words == Split(Lower(message))
      text_lower == Lower(ScorerText(product))
  IN    KeywordScore(user_words, text_lower, 20)
      + (IF "category" \in DOMAIN entities
            /\ Lower(entities.category) = Lower(product.category) THEN 40 ELSE 0)
      + (IF "max_price" \in DOMAIN entities
            /\ product.price <= entities.max_price THEN 30 ELSE 0)
      + (IF "min_price" \in DOMAIN entities
            /\ product.price >= entities.min_price THEN 20 ELSE 0)
      + (IF "brand" \in DOMAIN entities
            /\ Contains(Lower(product.name), Lower(entities.brand)) THEN 50 ELSE 0)
      + product.rating

calculate_product_relevance(message, product, entities) ==
  LET user_words == Split(Lower(message))
      text_lower == Lower(ScorerText(product))
      score ==
          KeywordScore(user_words, text_lower, 20)
        + (IF "category" \in DOMAIN entities
              /\ Lower(entities.category) = Lower(product.category) THEN 40 ELSE 0)
        + (IF "max_price" \in DOMAIN entities
              /\ product.price <= entities.max_price THEN 30 ELSE 0)
        + (IF "min_price" \in DOMAIN entities
              /\ product.price >= entities.min_price THEN 20 ELSE 0)
        + (IF "brand" \in DOMAIN entities
              /\ Contains(Lower(product.name), Lower(entities.brand)) THEN 50 ELSE 0)
        + product.rating
  IN  Min(score, 100)

\* tuple comparison of Python: a > b for two tuples of numbers of one length
RECURSIVE TupleGreater(_, _)
TupleGreater(a, b) ==
  IF a = <<>> THEN FALSE
  ELSE IF Head(a) # Head(b) THEN Head(a) > Head(b)
  ELSE TupleGreater(Tail(a), Tail(b))

\* list.sort / sorted with reverse=True, keys[i] the key tuple of s[i]:
\* descending key order, equal keys in their original order.  The place of
\* s[i] is one more than the number of elements that go before it.
SortDesc(s, keys) ==
  LET n     == Len(s)
      key   == List(keys)
      place == List([i \in 1..n |->
                 1 + Cardinality({j \in 1..n : \/ TupleGreater(key[j], key[i])
                                               \/ key[j] = key[i] /\ j < i})])
  IN  List([p \in 1..n |-> s[CHOOSE i \in 1..n : place[i] = p]])

\* s[:n]
Take(s, n) == SubSeq(s, 1, Min(n, Len(s)))

\* [x for x in s if Keep(x)]
Filter(s, Keep(_)) == SelectSeq(s, Keep)

\* the elements of a list, as a set
Range(s) == {s[i] : i \in DOMAIN s}

\* the sort keys (relevance_score, rating), relevance_score and rating
ByScoreThenRating(s) == [i \in DOMAIN s |-> <<s[i].relevance_score, s[i].rating>>]
ByScore(s) == [i \in DOMAIN s |-> <<s[i].relevance_score>>]
ByRating(s) == [i \in DOMAIN s |-> <<s[i].rating>>]

\* lines 359-363: the catalog after the scoring loop, which stores the score
\* into the dict of every product scoring above 0.3
ScoredCatalog(message, entities, products) ==
  List([i \in DOMAIN products |->
          LET score == calculate_product_relevance(message, products[i], entities)
          IN  IF score > 30 THEN products[i] @@ [relevance_score |-> score]
              ELSE products[i]])

\* a scoring branch that orders the matches by score alone
scorer_product_search_by_score(message, entities, products) ==
  LET matched_products == Filter(ScoredCatalog(message, entities, products),
                                 LAMBDA p : "relevance_score" \in DOMAIN p)
  IN  SortDesc(matched_products, ByScore(matched_products))

\* lines 356-365: the no-model branch of handle_product_search
scorer_product_search(message, entities, products) ==
  LET matched_products == Filter(ScoredCatalog(message, entities, products),
                                 LAMBDA p : "relevance_score" \in DOMAIN p)
  IN  SortDesc(matched_products, ByScoreThenRating(matched_products))

phone_keywords == <<"phone", "mobile", "smartphone", "iphone", "galaxy", "samsung", "apple">>
laptop_keywords == <<"laptop", "computer", "notebook", "dell", "hp", "macbook">>
headphone_keywords == <<"headphone", "earphone", "airpod", "headset", "earbuds">>
phone_words == <<"iphone", "galaxy", "smartphone", "mobile">>

\* f"{name} {description} {category} {' '.join(tags)}".lower() of basic_product_search
BasicText(product) ==
  Lower(product.name \o " " \o product.description \o " " \o product.category
          \o " " \o Join(product.tags))

\* lines 464-491: the score of one product
BasicScore(user_lower, product) ==
  LET product_text == BasicText(product)
      bucket ==
        IF ContainsAny(user_lower, phone_keywords)
        THEN IF /\ \/ ContainsAny(product_text, phone_keywords)
                   \/ Contains(Lower(product.category), "electronics")
                /\ ContainsAny(product_text, phone_words)
             THEN 100 ELSE 0
        ELSE IF ContainsAny(user_lower, laptop_keywords)
        THEN IF ContainsAny(product_text, laptop_keywords) THEN 100 ELSE 0
        ELSE IF ContainsAny(user_lower, headphone_keywords)
        THEN IF ContainsAny(product_text, headphone_keywords) THEN 100 ELSE 0
        ELSE KeywordScore(Split(user_lower), product_text, 40)
      words == Split(user_lower)
      bonus ==
        IF \E w \in DOMAIN words : Contains(Lower(product.category), words[w])
        THEN 30 ELSE 0
  IN  bucket + bonus

basic_product_search(message, products) ==
  LET user_lower == Lower(message)
      copies  == List([i \in DOMAIN products |->
                    products[i] @@
                      [relevance_score |-> Min(BasicScore(user_lower, products[i]), 100)]])
      matched == Filter(copies, LAMBDA p : p.relevance_score > 30)
  IN  Take(SortDesc(matched, ByScore(matched)), 10)

\* str.rfind(p) + 1, or 0 when p does not occur
RFind(s, p) ==
  IF Contains(s, p)
  THEN CHOOSE i \in 1..(Len(s) - Len(p) + 1) :
         /\ SubSeq(s, i, i + Len(p) - 1) = p
         /\ \A j \in (i + 1)..(Len(s) - Len(p) + 1) : SubSeq(s, j, j + Len(p) - 1) # p
  ELSE 0

(* json.loads on the '[' ... ']' span of the model's answer.  The answers   *)
(* considered hold, between the brackets, string literals without escapes,  *)
(* commas, spaces and bare words; on these the span is valid JSON exactly   *)
(* when it is an array of string literals.                                  *)
RECURSIVE SkipSpaces(_, _)
SkipSpaces(s, i) ==
  IF i <= Len(s) /\ CharAt(s, i) \in SpaceChars THEN SkipSpaces(s, i + 1) ELSE i

\* the index of the next '"' at or after i, 0 when there is none
RECURSIVE NextQuote(_, _)
NextQuote(s, i) ==
  IF i > Len(s) THEN 0
  ELSE IF CharAt(s, i) = "\"" THEN i ELSE NextQuote(s, i + 1)

JsonError == [ok |-> FALSE]

\* the elements from position i on, a string literal expected at i
RECURSIVE JsonElements(_, _, _)
JsonElements(s, i, acc) ==
  LET a == SkipSpaces(s, i)
      q == NextQuote(s, a + 1)
      b == SkipSpaces(s, q + 1)
  IN  IF a > Len(s) \/ CharAt(s, a) # "\"" \/ q = 0 \/ b > Len(s) THEN JsonError
      ELSE IF CharAt(s, b) = ","
           THEN JsonElements(s, b + 1, Append(acc, Slice(s, a + 1, q - 1)))
      ELSE IF CharAt(s, b) = "]" /\ SkipSpaces(s, b + 1) > Len(s)
           THEN [ok |-> TRUE, value |-> Append(acc, Slice(s, a + 1, q - 1))]
      ELSE JsonError

json_loads(s) ==
  LET a == SkipSpaces(s, 1)
      b == SkipSpaces(s, a + 1)
  IN  IF a > Len(s) \/ CharAt(s, a) # "[" \/ b > Len(s) THEN JsonError
      ELSE IF CharAt(s, b) = "]"
           THEN (IF SkipSpaces(s, b + 1) > Len(s)
                 THEN [ok |-> TRUE, value |-> <<>>] ELSE JsonError)
      ELSE JsonElements(s, b, <<>>)

\* list.index(x) for an x that occurs
IndexOf(s, x) == CHOOSE i \in DOMAIN s : s[i] = x /\ \A j \in 1..(i - 1) : s[j] # x

\* lines 432-439: one scored copy per selected id that is a catalog id
RECURSIVE SelectedProducts(_, _, _)
SelectedProducts(selected_ids, k, products) ==
  IF k > Len(selected_ids) THEN <<>>
  ELSE LET hits == {i \in DOMAIN products : products[i].id = selected_ids[k]}
       IN  (IF hits = {} THEN <<>>
            ELSE << products[CHOOSE i \in hits : \A j \in hits : i <= j] @@
                      [relevance_score |->
                         100 - 10 * (IndexOf(selected_ids, selected_ids[k]) - 1)] >>)
           \o SelectedProducts(selected_ids, k + 1, products)

\* a search that also falls back to the Basic Keyword Matcher when the
\* answer selects no catalog product
ai_powered_product_search_or_basic(message, products, ai) ==
  LET response_text == Strip(ai.text)
      parsed == json_loads(Slice(response_text, Find(response_text, "["),
                                 RFind(response_text, "]")))
  IN  IF ai.raises \/ ~Contains(response_text, "[") \/ ~Contains(response_text, "]")
         \/ ~parsed.ok
      THEN basic_product_search(message, products)
      ELSE IF SelectedProducts(parsed.value, 1, products) = <<>>
      THEN basic_product_search(message, products)
      ELSE SelectedProducts(parsed.value, 1, products)

\* a search that gives up, with no product, when the call raises or the span
\* is not JSON
ai_powered_product_search_or_nothing(message, products, ai) ==
  LET response_text == Strip(ai.text)
      parsed == json_loads(Slice(response_text, Find(response_text, "["),
                                 RFind(response_text, "]")))
  IN  IF ai.raises \/ ~Contains(response_text, "[") \/ ~Contains(response_text, "]")
         \/ ~parsed.ok
      THEN <<>>
      ELSE SelectedProducts(parsed.value, 1, products)

\* lines 384-450.  ai is what model.generate_content does on this call: it
\* raises, or it returns a response with the given text
ai_powered_product_search(message, products, ai) ==
  IF ai.raises THEN basic_product_search(message, products)
  ELSE LET response_text == Strip(ai.text)
           json_str == Slice(response_text, Find(response_text, "["),
                             RFind(response_text, "]"))
           parsed   == json_loads(json_str)
       IN  IF Contains(response_text, "[") /\ Contains(response_text, "]")
           THEN IF parsed.ok
                THEN SelectedProducts(parsed.value, 1, products)
                ELSE basic_product_search(message, products)
           ELSE SelectedProducts(<<>>, 1, products)

\* str(n) for n >= 0, and f"{n:,}"
DigitString == <<"0", "1", "2", "3", "4", "5", "6", "7", "8", "9">>
RECURSIVE ToStr(_)
ToStr(n) == IF n < 10 THEN DigitString[n + 1] ELSE ToStr(n \div 10) \o DigitString[(n % 10) + 1]
RECURSIVE WithCommas(_)
WithCommas(n) ==
  IF n < 1000 THEN ToStr(n)
  ELSE WithCommas(n \div 1000) \o ","
         \o DigitString[((n \div 100) % 10) + 1] \o DigitString[((n \div 10) % 10) + 1]
         \o DigitString[(n % 10) + 1]

\* no structured data (None as the fourth component of a handler's result)
NoData == [action |-> None]

(* Reply texts are kept by their headline with the values formatted into it; *)
(* the per-product lines and the fixed hints that follow are left out.       *)

get_related_products(base_products, all_products) ==
  IF base_products = <<>> THEN <<>>
  ELSE LET base_categories == {base_products[i].category : i \in DOMAIN base_products}
           related == Filter(all_products,
                             LAMBDA p : /\ p.category \in base_categories
                                        /\ p \notin Range(base_products)
                                        /\ p.rating >= 40)
       IN  Take(SortDesc(related, ByRating(related)), 5)

handle_no_products_found(message, products) ==
  [response |-> "No exact matches found for '" \o message \o "'",
   matched  |-> Take(SortDesc(products, ByRating(products)), 6),
   related  |-> <<>>,
   extra    |-> NoData]

create_ai_product_response(message, products) ==
  "Found " \o ToStr(Len(products)) \o " great matches for '" \o message \o "'!"

\* lines 367-381: the reply for the products matched
product_search_result(message, matched_products, catalog) ==
  IF matched_products # <<>>
  THEN [response |-> create_ai_product_response(message, matched_products),
        matched  |-> matched_products,
        related  |-> get_related_products(Take(matched_products, 3), catalog),
        extra    |-> [action |-> "product_search",
                      search_query |-> message,
                      total_results |-> Len(matched_products),
                      categories_found |->
                        {matched_products[i].category : i \in DOMAIN matched_products}]]
  ELSE handle_no_products_found(message, catalog)

\* lines 349-381.  Without a model the scoring loop stores the scores into
\* the catalog list that the related products are then drawn from.
handle_product_search(message, intent, products, configured, ai) ==
  IF configured
  THEN product_search_result(message,
                             ai_powered_product_search(message, products, ai), products)
  ELSE product_search_result(message,
                             scorer_product_search(message, intent.entities, products),
                             ScoredCatalog(message, intent.entities, products))
-----------------------------------------------------------------------------
(* Add to cart, cart view, greeting *)

\* what identify_product_from_message returns when it finds no product
NoProduct == [id |-> None]

\* f"{amount:,}" of the prices and totals in the reply texts
Rupees(amount) == "Rs." \o WithCommas(amount)

\* lines 734-748: the number of words of the product name that occur in the message
WordHits(product, user_msg_lower) ==
  LET product_words == Split(Lower(product.name))
  IN  [hits  |-> Cardinality({k \in DOMAIN product_words :
                                Contains(user_msg_lower, product_words[k])}),
       words |-> Len(product_words)]

\* lines 721-750.  The score hits / words of one product is compared with
\* another, and with 0.3, by cross-multiplication.
identify_product_from_message(message, products) ==
  LET user_msg_lower == Lower(message)
      by_id == {i \in DOMAIN products : Contains(message, products[i].id)}
      score == List([i \in DOMAIN products |-> WordHits(products[i], user_msg_lower)])
      Above(i, j) == score[i].hits * score[j].words > score[j].hits * score[i].words
      best  == {i \in DOMAIN products :
                  /\ 10 * score[i].hits > 3 * score[i].words
                  /\ \A j \in DOMAIN products : j < i => Above(i, j)
                  /\ \A j \in DOMAIN products : j > i => ~Above(j, i)}
  IN  IF by_id # {} THEN products[CHOOSE i \in by_id : \A j \in by_id : i <= j]
      ELSE IF best # {} THEN products[CHOOSE i \in best : TRUE]
      ELSE NoProduct

complementary_rules ==
  << [category |-> "Electronics",
      rules |-> << [product_type |-> "phone",
                    complements |-> <<"case", "charger", "headphones", "power bank">>],
                   [product_type |-> "laptop",
                    complements |-> <<"mouse", "keyboard", "bag", "external drive">>],
                   [product_type |-> "headphones",
                    complements |-> <<"case", "cable", "adapter">>],
                   [product_type |-> "camera",
                    complements |-> <<"memory card", "tripod", "case", "lens">>] >>],
     [category |-> "Clothing",
      rules |-> << [product_type |-> "shirt", complements |-> <<"pants", "belt", "tie">>],
                   [product_type |-> "jeans", complements |-> <<"shirt", "belt", "shoes">>],
                   [product_type |-> "kurta", complements |-> <<"bottom", "dupatta">>] >>],
     [category |-> "Footwear",
      rules |-> << [product_type |-> "shoes",
                    complements |-> <<"socks", "shoe care", "insoles">>],
                   [product_type |-> "sneakers",
                    complements |-> <<"sports wear", "socks">>] >>],
     [category |-> "Home & Kitchen",
      rules |-> << [product_type |-> "air fryer",
                    complements |-> <<"oil", "recipes", "accessories">>],
                   [product_type |-> "pan",
                    complements |-> <<"oil", "spices", "utensils">>] >>] >>

\* the concatenation of a list of lists
RECURSIVE Concat(_)
Concat(lists) == IF lists = <<>> THEN <<>> ELSE Head(lists) \o Concat(Tail(lists))

\* a catalog product as a recommendation
WithReason(product, reason) == [reason |-> reason] @@ product

\* lines 784-796: the companions of the first product type of the category
\* that occurs in the product name, complement by complement
Companions(added_product, all_products) ==
  LET product_name_lower == Lower(added_product.name)
      table == SelectSeq(complementary_rules,
                         LAMBDA c : c.category = added_product.category)
      types == IF table = <<>> THEN <<>>
               ELSE SelectSeq(table[1].rules,
                              LAMBDA r : Contains(product_name_lower, r.product_type))
      Fits(complement, product) ==
        /\ \/ Contains(Lower(product.name), complement)
           \/ Contains(Lower(product.description), complement)
        /\ product.id # added_product.id
  IN  IF types = <<>> THEN <<>>
      ELSE Concat([k \in DOMAIN types[1].complements |->
                     SelectSeq(all_products,
                               LAMBDA p : Fits(types[1].complements[k], p))])

\* lines 799-808: at most two other products of the category, priced at most
\* one and a half times the added product
SameCategory(added_product, all_products) ==
  Take(SelectSeq(all_products,
                 LAMBDA p : /\ p.category = added_product.category
                            /\ p.id # added_product.id
                            /\ 2 * p.price <= 3 * added_product.price), 2)

\* a pass that takes the last such product of the catalog
CrossCategoryLast(cart, all_products) ==
  LET cart_categories == {cart[i].category : i \in DOMAIN cart}
      cross_category_products ==
        SelectSeq(all_products,
                  LAMBDA p : p.category \notin cart_categories /\ p.rating >= 40)
  IN  IF Cardinality(cart_categories) >= 2 /\ cross_category_products # <<>>
      THEN <<cross_category_products[Len(cross_category_products)]>>
      ELSE <<>>

\* lines 811-821: the first well-rated product of a category not in the cart,
\* once the cart spans two categories
CrossCategory(cart, all_products) ==
  LET cart_categories == {cart[i].category : i \in DOMAIN cart}
      cross_category_products ==
        SelectSeq(all_products,
                  LAMBDA p : p.category \notin cart_categories /\ p.rating >= 40)
  IN  IF Cardinality(cart_categories) >= 2
      THEN Take(cross_category_products, 1) ELSE <<>>

\* the last recommendation of every id
UniqueLast(recommendations) ==
  LET keep == {i \in DOMAIN recommendations :
                 \A j \in (i + 1)..Len(recommendations) :
                   recommendations[j].id # recommendations[i].id}
  IN  List([k \in 1..Cardinality(keep) |-> recommendations[KthLeast(keep, k)]])

\* lines 824-831: the first recommendation of every id
Unique(recommendations) ==
  LET keep == {i \in DOMAIN recommendations :
                 \A j \in 1..(i - 1) : recommendations[j].id # recommendations[i].id}
  IN  List([k \in 1..Cardinality(keep) |-> recommendations[KthLeast(keep, k)]])

\* [WithReason(p, reason) for p in products]
AllWithReason(products, reason) ==
  List([i \in DOMAIN products |-> WithReason(products[i], reason)])

\* lines 780-808: the recommendations that depend on the added product alone
ProductRecommendations(added_product, all_products) ==
     AllWithReason(Companions(added_product, all_products),
                   "Perfect companion for your " \o added_product.name)
  \o AllWithReason(SameCategory(added_product, all_products),
                   "Another great " \o Lower(added_product.category) \o " option")

-----------------------------------------------------------------------------
(* The requests of the model, and the values of the pure functions on them. *)
(* Every table is the function of the code it names, applied to each        *)
(* utterance once; the handlers look their values up.                       *)

Utterances ==
  {"", "hi", "add Sony headphones to cart", "show me wireless headphones under 3000",
   "laptop for gaming", "find a phone", "buy sony headphones", "purchase a yoga mat",
   "order a unicorn", "tell me more", "recommend a phone", "compare phone vs laptop",
   "hey, show me my cart"}

\* what model.generate_content does on a call: it raises, or it answers text
AIResponses ==
  {[raises |-> TRUE,  text |-> ""],
   [raises |-> FALSE, text |-> "[\"prod_005\"]"],
   [raises |-> FALSE, text |-> "Relevant: [\"prod_007\", \"prod_404\", \"prod_005\", \"prod_007\"] "],
   [raises |-> FALSE, text |-> "[]"],
   [raises |-> FALSE, text |-> "No relevant products."],
   [raises |-> FALSE, text |-> "[\"prod_404\"]"],
   [raises |-> FALSE, text |-> "[prod_005]"],
   [raises |-> FALSE, text |-> "none ] ["],
   [raises |-> FALSE,
    text |-> "[\"prod_001\", \"prod_002\", \"prod_003\", \"prod_004\", \"prod_005\", \"prod_006\", "
               \o "\"prod_007\", \"prod_008\", \"prod_009\", \"prod_010\", \"prod_011\", \"prod_012\"]"]}

\* analyze_user_intent(user_message) of line 215
classified == [m \in Utterances |-> analyze_user_intent(m)]

\* identify_product_from_message(user_message, mock_products) of line 628
identified == [m \in Utterances |-> identify_product_from_message(m, mock_products)]

\* no model is configured, and generate_content is not called
NotCalled == [raises |-> FALSE, text |-> None]

\* handle_product_search(user_message, intent, mock_products) of line 221
searched ==
  [m \in {u \in Utterances : classified[u].type = "product_search"},
   ai \in AIResponses \cup {NotCalled} |->
     handle_product_search(m, classified[m], mock_products, ai # NotCalled, ai)]

\* lines 780-808 for every product an utterance identifies
product_recommendations ==
  [id \in {identified[m].id : m \in Utterances} \ {None} |->
     ProductRecommendations(
       mock_products[CHOOSE i \in DOMAIN mock_products : mock_products[i].id = id],
       mock_products)]

\* lines 753-831.  item['category'] of line 811 raises KeyError on a cart
\* entry that has no category, after the cart was changed.
generate_smart_recommendations(added_product, cart) ==
  IF \E i \in DOMAIN cart : "category" \notin DOMAIN cart[i]
  THEN [raised |-> TRUE]
  ELSE [raised |-> FALSE,
        value  |-> Take(Unique(
                     product_recommendations[added_product.id]
                       \o AllWithReason(CrossCategory(cart, mock_products),
                            "Customers who bought similar items also purchased this")), 5)]

\* sum(item['quantity'] ...) and sum(item['price'] * item['quantity'] ...)
RECURSIVE total_items(_)
total_items(cart) ==
  IF cart = <<>> THEN 0 ELSE Head(cart).quantity + total_items(Tail(cart))
RECURSIVE total_value(_)
total_value(cart) ==
  IF cart = <<>> THEN 0
  ELSE Head(cart).price * Head(cart).quantity + total_value(Tail(cart))

\* a handler's return value: the four components, and the cart it leaves
Returned(response, matched, related, extra, cart) ==
  [raised |-> FALSE, response |-> response, matched |-> matched,
   related |-> related, extra |-> extra, cart |-> cart]

\* an exception that leaves the handler, and the cart at that moment
Raised(cart) == [raised |-> TRUE, cart |-> cart]

\* a lookup that finds no entry
existing_item_none(cart, product_id) == 0

\* the index of the first entry of the cart with this id, 0 when there is none
existing_item(cart, product_id) ==
  LET hits == {i \in DOMAIN cart : cart[i].id = product_id}
  IN  IF hits = {} THEN 0 ELSE CHOOSE i \in hits : \A j \in hits : i <= j

\* lines 636-653: one more of the entry of the product, or a new entry of one
put_in_cart(product, at, cart) ==
  IF at # 0
  THEN [cart EXCEPT ![at] = [quantity |-> cart[at].quantity + 1] @@ cart[at]]
  ELSE Append(cart, [id |-> product.id, name |-> product.name, price |-> product.price,
                     category |-> product.category, quantity |-> 1])

\* the recommendations of the structured data, by id and reason
shown_recommendations(shown) ==
  List([i \in DOMAIN shown |-> [id |-> shown[i].id, reason |-> shown[i].reason]])

\* lines 659-718: what follows the change of the cart
cart_updated(product, at, cart, recommendations) ==
  IF recommendations.raised THEN Raised(cart)
  ELSE Returned(
         (IF at # 0 THEN Title("updated") ELSE Title("added")) \o " to Cart! "
           \o product.name \o " - " \o Rupees(product.price) \o ". "
           \o (IF at # 0 THEN "Quantity increased to " \o ToStr(cart[at].quantity)
               ELSE "Added 1 item")
           \o ". Total Items: " \o ToStr(total_items(cart))
           \o ". Cart Value: " \o Rupees(total_value(cart)),
         <<>>, recommendations.value,
         [action |-> "cart_updated",
          added_product |-> product.id,
          cart_summary |-> [total_items |-> total_items(cart),
                            total_value |-> total_value(cart)],
          recommendations |-> shown_recommendations(Take(recommendations.value, 3))],
         cart)

\* lines 633-718, for the product found
add_product(product, at, cart) ==
  cart_updated(product, at, put_in_cart(product, at, cart),
               generate_smart_recommendations(product, put_in_cart(product, at, cart)))

\* a handler that adds the first product of the catalog when it finds none
handle_add_to_cart_first(message, cart) ==
  IF identified[message] = NoProduct
  THEN add_product(mock_products[1], existing_item(cart, mock_products[1].id), cart)
  ELSE add_product(identified[message],
                   existing_item(cart, identified[message].id), cart)

\* lines 625-718
handle_add_to_cart(message, cart) ==
  IF identified[message] = NoProduct
  THEN Returned("Product not found!", <<>>, <<>>, NoData, cart)
  ELSE add_product(identified[message],
                   existing_item(cart, identified[message].id), cart)

\* a cart view that empties the cart it shows
handle_cart_view_and_clear(cart) ==
  IF cart = <<>> THEN Returned("Your Cart is Empty", <<>>, <<>>, NoData, cart)
  ELSE Returned("Your Shopping Cart (" \o ToStr(total_items(cart)) \o " items). Total: "
                  \o Rupees(total_value(cart)),
                <<>>, <<>>, NoData, <<>>)

\* lines 834-867
handle_cart_view(cart) ==
  IF cart = <<>> THEN Returned("Your Cart is Empty", <<>>, <<>>, NoData, cart)
  ELSE Returned("Your Shopping Cart (" \o ToStr(total_items(cart)) \o " items). Total: "
                  \o Rupees(total_value(cart)),
                <<>>, <<>>, NoData, cart)

\* line 326: the three greetings random.choice picks from
responses ==
  << "Hello! I'm your AI Shopping Assistant. I'm here to help you find the perfect products!",
     "Hi there! Welcome to our store! What can I help you discover today?",
     "Hey! Ready to find some amazing deals? What are you looking for?" >>

\* a greeting that shows the first products of the catalog
handle_greeting_with_products(choice, cart) ==
  Returned(responses[choice], Take(mock_products, 3), <<>>, NoData, cart)

\* lines 324-346; choice is the index random.choice picked
handle_greeting(choice, cart) ==
  Returned(responses[choice], <<>>, <<>>, NoData, cart)

\* lines 927-949
handle_popular_products(cart) ==
  Returned("Popular Products Right Now",
           Take(SortDesc(mock_products, ByRating(mock_products)), 8), <<>>, NoData, cart)

\* lines 892-997
handle_general_query(message, cart) ==
  LET user_msg_lower == Lower(message)
  IN  IF ContainsAny(user_msg_lower, <<"help", "what can you do", "how does this work">>)
      THEN Returned("I'm your AI Shopping Assistant!", <<>>, <<>>, NoData, cart)
      ELSE IF ContainsAny(user_msg_lower, <<"popular", "trending", "best sellers">>)
      THEN handle_popular_products(cart)
      ELSE IF ContainsAny(user_msg_lower, <<"categories", "what do you sell">>)
      THEN Returned("Shop by Category", <<>>, <<>>, NoData, cart)
      ELSE Returned("I'd love to help you find what you're looking for! You mentioned: '"
                      \o message \o "'", <<>>, <<>>, NoData, cart)

\* lines 209-235.  handle_product_details, handle_recommendations,
\* handle_price_inquiry and handle_product_comparison are defined nowhere in
\* app.py: calling one raises NameError.
generate_conversational_response(message, cart, ai, choice) ==
  LET intent == classified[message]
  IN  IF intent.type = "greeting" THEN handle_greeting(choice, cart)
      ELSE IF intent.type = "product_search"
      THEN [raised |-> FALSE, cart |-> cart] @@ searched[message, ai]
      ELSE IF intent.type = "add_to_cart" THEN handle_add_to_cart(message, cart)
      ELSE IF intent.type = "cart_view" THEN handle_cart_view(cart)
      ELSE IF intent.type \in {"product_details", "recommendations",
                               "price_inquiry", "compare"}
      THEN Raised(cart)
      ELSE handle_general_query(message, cart)
-----------------------------------------------------------------------------
(* The endpoints.  Timestamps are left out of log entries, cart entries and *)
(* responses.                                                               *)

\* the most entries the conversation log grows to
MaxLog == 2
\* the largest quantity a cart entry grows to
MaxQty == 2

\* the product_id and quantity values of the cart requests.  The endpoints
\* take the quantity as it comes (lines 1367, 1407); 0 is the one value
\* below 1 that the requests here carry.
ProductIds == {"prod_001", "prod_404"}
Quantities == 0..MaxQty

\* s[:n]
First(s, n) == SubSeq(s, 1, IF Len(s) > n THEN n ELSE Len(s))

\* s[-n:]
Last(s, n) == SubSeq(s, IF Len(s) > n THEN Len(s) - n + 1 ELSE 1, Len(s))

\* lines 171-184: the products of the response, by id and relevance_score
display_products(matched_products) ==
  LET shown == Take(matched_products, 8)
  IN  List([i \in DOMAIN shown |->
              [id |-> shown[i].id,
               relevance_score |-> IF "relevance_score" \in DOMAIN shown[i]
                                   THEN shown[i].relevance_score ELSE 50]])

\* the ids of a list of products
Ids(products) == List([i \in DOMAIN products |-> products[i].id])

\* lines 156-202: the response of a turn whose handler returned r
response_data(r, log) ==
  LET base == [status |-> 200, response |-> r.response,
               conversation_history |-> Last(log, 10), cart_items |-> r.cart]
      updated == IF r.extra # NoData THEN r.extra @@ base ELSE base
  IN  IF r.matched # <<>>
      THEN [products |-> display_products(r.matched),
            recommended_products |-> display_products(r.matched),
            related_products |-> Ids(Take(r.related, 4)),
            total_count |-> Len(r.matched)] @@ updated
      ELSE [products |-> <<>>, recommended_products |-> <<>>,
            related_products |-> <<>>, total_count |-> 0] @@ updated

\* what the model does when this turn calls it
ModelOutcomes(message) ==
  IF model /\ classified[message].type = "product_search"
  THEN AIResponses ELSE {NotCalled}

\* the indices random.choice may pick in this turn
Choices(message) ==
  IF classified[message].type = "greeting" THEN DOMAIN responses ELSE {1}

\* lines 146-206: the end of a turn whose handler returned or raised r
turn(message, r) ==
  /\ \A i \in DOMAIN r.cart : r.cart[i].quantity <= MaxQty
  /\ cart_items' = r.cart
  /\ IF r.raised
     THEN /\ conversation_history' =
               Append(conversation_history, [role |-> "user", message |-> message])
          /\ reply' = [status |-> 500, error |-> "Chat processing failed"]
     ELSE /\ conversation_history' =
               conversation_history \o << [role |-> "user", message |-> message],
                                          [role |-> "assistant", message |-> r.response] >>
          /\ reply' = response_data(r, conversation_history')

\* lines 129-206: POST /api/chat
chat(message, ai, choice) ==
  IF message = ""
  THEN /\ reply' = [status |-> 400, error |-> "No message provided"]
       /\ UNCHANGED <<cart_items, conversation_history, generated>>
  ELSE /\ Len(conversation_history) + 2 <= MaxLog
       /\ generated' = ai
       /\ turn(message, generate_conversational_response(message, cart_items, ai, choice))

Chat ==
  /\ \E message \in Utterances :
       \E ai \in ModelOutcomes(message), choice \in Choices(message) :
         chat(message, ai, choice)
  /\ UNCHANGED <<model, user_message, result, in_flight>>

\* lines 1361-1399: POST /api/cart/add
add_to_cart(product_id, quantity) ==
  LET hits == {i \in DOMAIN mock_products : mock_products[i].id = product_id}
      product == mock_products[CHOOSE i \in hits : \A j \in hits : i <= j]
      at == existing_item(cart_items, product_id)
  IN  IF hits = {}
      THEN /\ reply' = [status |-> 404, error |-> "Product not found"]
           /\ UNCHANGED cart_items
      ELSE /\ IF at # 0
              THEN /\ cart_items[at].quantity + quantity <= MaxQty
                   /\ cart_items' =
                        [cart_items EXCEPT ![at] =
                           [quantity |-> cart_items[at].quantity + quantity]
                             @@ cart_items[at]]
              ELSE cart_items' =
                     Append(cart_items, [id |-> product.id, name |-> product.name,
                                         price |-> product.price, quantity |-> quantity])
           /\ reply' = [status |-> 200,
                        message |-> "Added " \o product.name \o " to cart",
                        cart_items |-> Len(cart_items')]

CartAdd ==
  /\ \E product_id \in ProductIds, quantity \in Quantities :
       add_to_cart(product_id, quantity)
  /\ UNCHANGED <<model, conversation_history, generated, user_message, result, in_flight>>

\* lines 1401-1423: POST /api/cart/update
update_cart(product_id, quantity) ==
  LET at == existing_item(cart_items, product_id)
  IN  IF at # 0
      THEN /\ cart_items' = [cart_items EXCEPT ![at] =
                               [quantity |-> quantity] @@ cart_items[at]]
           /\ reply' = [status |-> 200, message |-> "Cart updated successfully"]
      ELSE /\ reply' = [status |-> 404, error |-> "Item not found in cart"]
           /\ UNCHANGED cart_items

CartUpdate ==
  /\ \E product_id \in ProductIds, quantity \in Quantities :
       update_cart(product_id, quantity)
  /\ UNCHANGED <<model, conversation_history, generated, user_message, result, in_flight>>

\* lines 1425-1442: POST /api/cart/remove
remove_from_cart(product_id) ==
  /\ cart_items' = SelectSeq(cart_items, LAMBDA item : item.id # product_id)
  /\ reply' = [status |-> 200, message |-> "Item removed from cart"]

CartRemove ==
  /\ \E product_id \in ProductIds : remove_from_cart(product_id)
  /\ UNCHANGED <<model, conversation_history, generated, user_message, result, in_flight>>

\* lines 1444-1458: POST /api/cart/clear
clear_cart ==
  /\ cart_items' = <<>>
  /\ reply' = [status |-> 200, message |-> "Cart cleared successfully"]

CartClear ==
  /\ clear_cart
  /\ UNCHANGED <<model, conversation_history, generated, user_message, result, in_flight>>

\* before any request, and before any direct call
NoReply == [status |-> 0]
NoResult == [fn |-> None]

\* the process starts with an empty cart and log; the model is configured
\* iff GEMINI_API_KEY is set and the library loads (lines 57-69)
Init ==
  /\ model \in BOOLEAN
  /\ cart_items = <<>>
  /\ conversation_history = <<>>
  /\ reply = NoReply
  /\ generated = NotCalled
  /\ user_message = ""
  /\ result = NoResult
  /\ in_flight = <<>>

Next == Chat \/ CartAdd \/ CartUpdate \/ CartRemove \/ CartClear

Spec == Init /\ [][Next]_vars

-----------------------------------------------------------------------------
(* Direct calls of extract_entities and analyze_user_intent *)

\* extract_entities(user_message); again tells that the call before it was
\* that of the same function
CallExtract ==
  /\ result' = [fn |-> "extract_entities", value |-> extract_entities(user_message),
                again |-> result.fn = "extract_entities"]
  /\ UNCHANGED <<model, cart_items, conversation_history, reply, generated, user_message, in_flight>>

\* analyze_user_intent(user_message)
CallAnalyze ==
  /\ result' = [fn |-> "analyze_user_intent", value |-> analyze_user_intent(user_message),
                again |-> result.fn = "analyze_user_intent"]
  /\ UNCHANGED <<model, cart_items, conversation_history, reply, generated, user_message, in_flight>>

(* The two functions alone, on generated texts *)

\* the most fragments a generated text is joined from
MaxFragments == 2

Fragments ==
  {"Hi", "buy", "cart", "details", "suggest", "cost", "vs", "find",
   "under 50", "below 7", "less than 9", "10 to 20", "between 3 and 4",
   "shoes", "phone", "sports", "notebook", "Sony", "HP", "zzz"}

Texts ==
  {Join(ws) : ws \in UNION {[1..n -> Fragments] : n \in 0..MaxFragments}}
    \cup Utterances

InitText ==
  /\ model = FALSE
  /\ cart_items = <<>>
  /\ conversation_history = <<>>
  /\ reply = NoReply
  /\ generated = NotCalled
  /\ user_message \in Texts
  /\ result = NoResult
  /\ in_flight = <<>>

NextText == CallExtract \/ CallAnalyze

SpecText == InitText /\ [][NextText]_vars

(* The two functions called between the requests of the endpoints *)

ProbeTexts == {"buy sony headphones", "show me wireless headphones under 3000"}

InitCalls ==
  /\ model \in BOOLEAN
  /\ cart_items = <<>>
  /\ conversation_history = <<>>
  /\ reply = NoReply
  /\ generated = NotCalled
  /\ user_message \in ProbeTexts
  /\ result = NoResult
  /\ in_flight = <<>>

NextCalls == Next \/ CallExtract \/ CallAnalyze

SpecCalls == InitCalls /\ [][NextCalls]_vars

-----------------------------------------------------------------------------
(* handle_product_search and generate_smart_recommendations alone, called   *)
(* with catalogs and cart snapshots other than those of the running app     *)

\* lines 753-831 for any catalog.  item['category'] of line 811 raises
\* KeyError on a cart entry that has no category.
smart_recommendations(added_product, cart, all_products) ==
  IF \E i \in DOMAIN cart : "category" \notin DOMAIN cart[i]
  THEN [raised |-> TRUE]
  ELSE [raised |-> FALSE,
        value  |-> Take(Unique(
                     ProductRecommendations(added_product, all_products)
                       \o AllWithReason(CrossCategory(cart, all_products),
                            "Customers who bought similar items also purchased this")), 5)]

\* the products the catalogs are drawn from: the Sony headphones of the
\* catalog of the app, and seven more in the same format
Shelf ==
  << mock_products[1],
     [id |-> "shelf_01", name |-> "Studio Wireless Headphones", price |-> 5000,
      category |-> "Electronics", description |-> "wireless headphones",
      tags |-> <<"audio">>, stock |-> 5, rating |-> 48],
     [id |-> "shelf_02", name |-> "Nova Phone", price |-> 9000,
      category |-> "Electronics", description |-> "phone with charger",
      tags |-> <<>>, stock |-> 3, rating |-> 44],
     [id |-> "shelf_03", name |-> "Phone Case", price |-> 300,
      category |-> "Accessories", description |-> "slim case",
      tags |-> <<>>, stock |-> 9, rating |-> 42],
     [id |-> "shelf_04", name |-> "Power Bank", price |-> 3500,
      category |-> "Accessories", description |-> "",
      tags |-> <<>>, stock |-> 0, rating |-> 20],
     [id |-> "shelf_05", name |-> "Cotton Shirt", price |-> 5000,
      category |-> "Clothing", description |-> "",
      tags |-> <<"cotton">>, stock |-> 7, rating |-> 46],
     [id |-> "shelf_06", name |-> "Fast Charger", price |-> 500,
      category |-> "Electronics", description |-> "",
      tags |-> <<>>, stock |-> 2, rating |-> 41],
     [id |-> "shelf_07", name |-> "Yoga Mat", price |-> 700,
      category |-> "Sports & Fitness", description |-> "",
      tags |-> <<"yoga">>, stock |-> 4, rating |-> 45] >>

\* the elements of s at the indices in S, in the order of s
Pick(s, S) == List([k \in 1..Cardinality(S) |-> s[KthLeast(S, k)]])

\* every catalog that lists some products of the shelf in shelf order
Catalogs == {Pick(Shelf, S) : S \in SUBSET DOMAIN Shelf}

\* the cart entry handle_add_to_cart makes of a product (lines 643-651)
Entry(product) == put_in_cart(product, 0, <<>>)[1]

\* every cart that holds some of four entries, one category each
Snapshots ==
  LET entries == <<Entry(Shelf[1]), Entry(Shelf[4]), Entry(Shelf[6]), Entry(Shelf[8])>>
  IN  {Pick(entries, S) : S \in SUBSET DOMAIN entries}

ShelfQueries == {"show me wireless headphones under 3000", "yoga mat", "zzz qqq"}

\* the catalogs to search: those of the shelf, and the catalog of the program
SearchCatalogs == Catalogs \cup {mock_products}

\* the queries to hand to the Basic Keyword Matcher
BasicQueries == {"wireless headphones", "bluetooth earbuds"}

\* the calls to make: the function and its arguments
SearchCalls ==
  {[fn |-> None, pending |-> "handle_product_search",
    user_message |-> m, mock_products |-> c] : m \in ShelfQueries, c \in SearchCatalogs}
BasicCalls ==
  {[fn |-> None, pending |-> "basic_product_search",
    user_message |-> m, mock_products |-> c] : m \in BasicQueries, c \in SearchCatalogs}
RecommendCalls ==
  {[fn |-> None, pending |-> "generate_smart_recommendations",
    added_product |-> Shelf[a], cart_items |-> s, all_products |-> c] :
     a \in DOMAIN Shelf, s \in Snapshots, c \in Catalogs}

\* handle_product_search(user_message, intent, mock_products) with no model
\* configured
CallSearch ==
  /\ result.fn = None
  /\ "pending" \in DOMAIN result
  /\ result.pending = "handle_product_search"
  /\ result' = [fn |-> "handle_product_search",
                value |-> handle_product_search(
                            result.user_message, analyze_user_intent(result.user_message),
                            result.mock_products, FALSE, NotCalled)] @@ result
  /\ UNCHANGED <<model, cart_items, conversation_history, reply, generated, user_message, in_flight>>

\* basic_product_search(user_message, mock_products)
CallBasic ==
  /\ result.fn = None
  /\ "pending" \in DOMAIN result
  /\ result.pending = "basic_product_search"
  /\ result' = [fn |-> "basic_product_search",
                value |-> basic_product_search(result.user_message,
                                               result.mock_products)] @@ result
  /\ UNCHANGED <<model, cart_items, conversation_history, reply, generated, user_message, in_flight>>

\* generate_smart_recommendations(added_product, cart_items, all_products)
CallRecommend ==
  /\ result.fn = None
  /\ "pending" \in DOMAIN result
  /\ result.pending = "generate_smart_recommendations"
  /\ result' = [fn |-> "generate_smart_recommendations",
                value |-> smart_recommendations(
                            result.added_product, result.cart_items,
                            result.all_products)] @@ result
  /\ UNCHANGED <<model, cart_items, conversation_history, reply, generated, user_message, in_flight>>

InitShelf ==
  /\ model = FALSE
  /\ cart_items = <<>>
  /\ conversation_history = <<>>
  /\ reply = NoReply
  /\ generated = NotCalled
  /\ user_message = ""
  /\ result \in SearchCalls \cup BasicCalls \cup RecommendCalls
  /\ in_flight = <<>>

NextShelf == CallSearch \/ CallBasic \/ CallRecommend

SpecShelf == InitShelf /\ [][NextShelf]_vars

-----------------------------------------------------------------------------
(* Long conversations: the chat endpoint alone, on two utterances, one that *)
(* is answered and one whose handler raises                                 *)

\* the most entries the conversation log grows to in a long conversation
MaxHistory == 12

LongTalk == {"hi", "tell me more"}

\* lines 129-206: POST /api/chat with one of the two utterances
ChatLong ==
  /\ \E message \in LongTalk :
       \E choice \in Choices(message) :
         /\ Len(conversation_history) + 2 <= MaxHistory
         /\ generated' = NotCalled
         /\ turn(message,
                 generate_conversational_response(message, cart_items, NotCalled, choice))
  /\ UNCHANGED <<model, user_message, result, in_flight>>

InitLong ==
  /\ model = FALSE
  /\ cart_items = <<>>
  /\ conversation_history = <<>>
  /\ reply = NoReply
  /\ generated = NotCalled
  /\ user_message = ""
  /\ result = NoResult
  /\ in_flight = <<>>

NextLong == ChatLong

SpecLong == InitLong /\ [][NextLong]_vars

-----------------------------------------------------------------------------
(* /api/cart/add under the threaded development server                     *)
(*                                                                         *)
(* app.run (line 1547) serves every request in a thread of its own and the *)
(* cart is a module global with no lock (lines 74-76), so the steps of two *)
(* handlers interleave.  A request is followed through lines 1377-1395:    *)
(* the lookup of the entry, then the append of a new entry, or the read    *)
(* and the write of existing_item['quantity'] += quantity, which Python    *)
(* does not make atomic, then the response.  handle_add_to_cart (lines     *)
(* 636-653) looks up and writes in the same two moves.                     *)

\* the requests that race, all for one product and a quantity of 1
MaxRequests == 4
Requests == 1..MaxRequests
RaceProduct == mock_products[1]

\* a request the handler has not started on
Received == [pc |-> "received", existing_item |-> 0, quantity |-> 0]

\* line 1377: existing_item = next((item for item in cart_items ...), None)
find_existing(t) ==
  /\ in_flight[t].pc = "received"
  /\ in_flight' = [in_flight EXCEPT ![t] =
                     [pc |-> "looked_up",
                      existing_item |-> existing_item(cart_items, RaceProduct.id),
                      quantity |-> 0]]
  /\ UNCHANGED <<cart_items, reply>>

\* line 1380, the read of existing_item['quantity'] += quantity
load_quantity(t) ==
  /\ in_flight[t].pc = "looked_up"
  /\ in_flight[t].existing_item # 0
  /\ in_flight' = [in_flight EXCEPT ![t] =
                     [pc |-> "loaded",
                      existing_item |-> in_flight[t].existing_item,
                      quantity |-> cart_items[in_flight[t].existing_item].quantity]]
  /\ UNCHANGED <<cart_items, reply>>

\* line 1380, the write of existing_item['quantity'] += quantity
store_quantity(t) ==
  /\ in_flight[t].pc = "loaded"
  /\ cart_items' = [cart_items EXCEPT ![in_flight[t].existing_item] =
                      [quantity |-> in_flight[t].quantity + 1] @@ @]
  /\ in_flight' = [in_flight EXCEPT ![t] = [pc |-> "written"] @@ @]
  /\ UNCHANGED reply

\* an append that looks the entry up again, and adds to it when there is one
append_entry_if_none(t) ==
  /\ in_flight[t].pc = "looked_up"
  /\ in_flight[t].existing_item = 0
  /\ cart_items' =
       IF existing_item(cart_items, RaceProduct.id) = 0
       THEN Append(cart_items, [id |-> RaceProduct.id, name |-> RaceProduct.name,
                                price |-> RaceProduct.price, quantity |-> 1])
       ELSE [cart_items EXCEPT ![existing_item(cart_items, RaceProduct.id)] =
               [quantity |-> @.quantity + 1] @@ @]
  /\ in_flight' = [in_flight EXCEPT ![t] = [pc |-> "written"] @@ @]
  /\ UNCHANGED reply

\* lines 1382-1389: cart_items.append({...})
append_entry(t) ==
  /\ in_flight[t].pc = "looked_up"
  /\ in_flight[t].existing_item = 0
  /\ cart_items' = Append(cart_items, [id |-> RaceProduct.id, name |-> RaceProduct.name,
                                       price |-> RaceProduct.price, quantity |-> 1])
  /\ in_flight' = [in_flight EXCEPT ![t] = [pc |-> "written"] @@ @]
  /\ UNCHANGED reply

\* lines 1391-1395: the response, with the length of the cart at that moment
respond(t) ==
  /\ in_flight[t].pc = "written"
  /\ reply' = [status |-> 200,
               message |-> "Added " \o RaceProduct.name \o " to cart",
               cart_items |-> Len(cart_items)]
  /\ in_flight' = [in_flight EXCEPT ![t] = [pc |-> "responded"] @@ @]
  /\ UNCHANGED cart_items

FindExisting  == \E t \in Requests : find_existing(t)
LoadQuantity  == \E t \in Requests : load_quantity(t)
StoreQuantity == \E t \in Requests : store_quantity(t)
AppendEntry   == \E t \in Requests : append_entry(t)
Respond       == \E t \in Requests : respond(t)

\* the next step of the thread of request t
Thread(t) ==
  /\ \/ find_existing(t) \/ load_quantity(t) \/ store_quantity(t)
     \/ append_entry(t) \/ respond(t)
  /\ UNCHANGED <<model, conversation_history, generated, user_message, result>>

InitRace ==
  /\ model = FALSE
  /\ cart_items = <<>>
  /\ conversation_history = <<>>
  /\ reply = NoReply
  /\ generated = NotCalled
  /\ user_message = ""
  /\ result = NoResult
  /\ in_flight = [t \in Requests |-> Received]

NextRace ==
  /\ FindExisting \/ LoadQuantity \/ StoreQuantity \/ AppendEntry \/ Respond
  /\ UNCHANGED <<model, conversation_history, generated, user_message, result>>

\* every thread that can take a step takes it in the end
SpecRace ==
  InitRace /\ [][NextRace]_vars /\ \A t \in Requests : WF_vars(Thread(t))
-----------------------------------------------------------------------------
(* Properties *)

\* this step is a chat turn for the utterance m: the log gains m as a user entry
TurnOf(m) ==
  /\ Len(conversation_history') > Len(conversation_history)
  /\ conversation_history'[Len(conversation_history) + 1] = [role |-> "user", message |-> m]

\* the utterance of the turn that the response in reply answers
Answered ==
  reply.conversation_history[Len(reply.conversation_history) - 1].message

\* the keys of a response that carries no structured data
PlainKeys ==
  {"status", "response", "conversation_history", "cart_items", "products",
   "recommended_products", "related_products", "total_count"}

\* the least element of a non-empty set of numbers
Least(S) == CHOOSE x \in S : \A y \in S : x <= y

\* C1: a turn 'add Sony headphones to cart' that starts from an empty cart is
\* handled as add_to_cart for the Sony headphones (prod_001) and leaves the
\* cart with exactly one entry, that product, quantity 1.
C1_AddSonyHeadphones ==
  [][TurnOf("add Sony headphones to cart") /\ cart_items = <<>>
       => /\ "action" \in DOMAIN reply'
          /\ reply'.action = "cart_updated"
          /\ reply'.added_product = "prod_001"
          /\ Len(cart_items') = 1
          /\ cart_items'[1].id = "prod_001"
          /\ cart_items'[1].quantity = 1]_vars

\* C2: analyze_user_intent('show me wireless headphones under 3000') returns
\* product_search with category Electronics, max_price 3000 and no min_price.
C2_HeadphonesUnder3000 ==
  (result.fn = "analyze_user_intent"
     /\ user_message = "show me wireless headphones under 3000")
    => /\ result.value.type = "product_search"
       /\ "category" \in DOMAIN result.value.entities
       /\ result.value.entities.category = "Electronics"
       /\ "max_price" \in DOMAIN result.value.entities
       /\ result.value.entities.max_price = 3000
       /\ "min_price" \notin DOMAIN result.value.entities

\* C3: every turn for a non-empty utterance, whatever its intent label, ends
\* in a response with a reply text and product lists, never in an error.
C3_TurnAlwaysReplies ==
  [][\A m \in Utterances \ {""} :
       TurnOf(m) => /\ reply'.status = 200
                    /\ PlainKeys \subseteq DOMAIN reply']_vars

\* the ids of the products whose combined text holds a laptop keyword
laptop_bucket ==
  {mock_products[i].id :
     i \in {j \in DOMAIN mock_products :
              ContainsAny(BasicText(mock_products[j]), laptop_keywords)}}

\* basic_product_search on the product_search utterances
basic_found ==
  [m \in {u \in Utterances : classified[u].type = "product_search"} |->
     basic_product_search(m, mock_products)]

\* C4: without a model, the turn 'laptop for gaming' is answered by the Basic
\* Keyword Matcher: the products of the response are its products, and the
\* combined text of every one of them holds a laptop keyword.
C4_LaptopBucket ==
  [][~model /\ TurnOf("laptop for gaming")
       => /\ reply'.status = 200
          /\ reply'.products = display_products(basic_found["laptop for gaming"])
          /\ \A i \in DOMAIN reply'.products :
               reply'.products[i].id \in laptop_bucket]_vars

\* the answer of the model has no '[' ... ']' span, or its array is empty, or
\* none of its ids is a catalog id
NoIds(ai) ==
  LET response_text == Strip(ai.text)
      parsed == json_loads(Slice(response_text, Find(response_text, "["),
                                 RFind(response_text, "]")))
  IN  /\ ~ai.raises
      /\ \/ ~(Contains(response_text, "[") /\ Contains(response_text, "]"))
         \/ /\ parsed.ok
            /\ \A k \in DOMAIN parsed.value :
                 \A i \in DOMAIN mock_products : mock_products[i].id # parsed.value[k]

\* the call of the model raises, or the '[' ... ']' span of its answer is not JSON
Unusable(ai) ==
  LET response_text == Strip(ai.text)
  IN  \/ ai.raises
      \/ /\ Contains(response_text, "[") /\ Contains(response_text, "]")
         /\ ~json_loads(Slice(response_text, Find(response_text, "["),
                              RFind(response_text, "]"))).ok

no_ids == {ai \in AIResponses : NoIds(ai)}
unusable == {ai \in AIResponses : Unusable(ai)}

\* the six best rated products, as handle_no_products_found shows them
popular_six == display_products(Take(SortDesc(mock_products, ByRating(mock_products)), 6))

\* this step is a product_search turn for m with the model configured
SearchTurn(m) == model /\ classified[m].type = "product_search" /\ TurnOf(m)

LabelOrder ==
  <<"greeting", "add_to_cart", "cart_view", "product_details", "recommendations",
    "price_inquiry", "compare", "product_search">>

\* the patterns of a label
PatternsOf(label) ==
  intent_patterns[CHOOSE k \in DOMAIN intent_patterns :
                    intent_patterns[k].type = label].patterns

\* the places in LabelOrder of the labels with a pattern in the text
LabelsIn(text) ==
  {k \in DOMAIN LabelOrder : ContainsAny(Strip(Lower(text)), PatternsOf(LabelOrder[k]))}

\* C6: analyze_user_intent returns the first label of LabelOrder that has a
\* pattern in the lower-cased trimmed text, with confidence 0.8; when none
\* has, product_search with confidence 0.6; 0.6 comes with no other case.
C6_FirstLabelWins ==
  result.fn = "analyze_user_intent"
    => /\ LabelsIn(user_message) # {}
            => /\ result.value.type = LabelOrder[Least(LabelsIn(user_message))]
               /\ result.value.confidence = 8
       /\ LabelsIn(user_message) = {}
            => /\ result.value.type = "product_search"
               /\ result.value.confidence = 6
       /\ result.value.confidence = 6 <=> LabelsIn(user_message) = {}

\* 'cart buy' holds a cart_view pattern before an add_to_cart pattern, and is
\* classified add_to_cart
C6_Witness ==
  /\ result.fn = "analyze_user_intent"
  /\ user_message = "cart buy"
  /\ LabelsIn(user_message) = {2, 3}
  /\ result.value.type = "add_to_cart"

\* C7: a turn whose utterance is classified greeting returns no matched
\* products, no related products and no structured data, and leaves the cart.
C7_GreetingOnlyGreets ==
  [][\A m \in Utterances \ {""} :
       TurnOf(m) /\ classified[m].type = "greeting"
         => /\ reply'.status = 200
            /\ reply'.products = <<>>
            /\ reply'.related_products = <<>>
            /\ reply'.total_count = 0
            /\ DOMAIN reply' = PlainKeys
            /\ cart_items' = cart_items]_vars

\* a greeting was answered while the cart held something
C7_Witness ==
  /\ cart_items # <<>>
  /\ "response" \in DOMAIN reply
  /\ Answered = "hi"
  /\ reply.response = responses[1]
  /\ reply.cart_items = cart_items

\* the order of the category table as C8 gives it
CategoryOrder ==
  <<"Electronics", "Footwear", "Clothing", "Home & Kitchen", "Beauty & Personal Care",
    "Sports & Fitness", "Books & Stationery", "Toys & Baby Products", "Groceries">>

\* the keywords of a category
KeywordsOf(category) ==
  category_keywords[CHOOSE k \in DOMAIN category_keywords :
                      category_keywords[k].category = category].keywords

\* the places in CategoryOrder of the categories with a keyword in the text
CategoriesIn(text) ==
  {k \in DOMAIN CategoryOrder : ContainsAny(Lower(text), KeywordsOf(CategoryOrder[k]))}

\* the words of a text in the opposite order
RECURSIVE Reverse(_)
Reverse(s) == IF s = <<>> THEN <<>> ELSE Append(Reverse(Tail(s)), Head(s))
Backwards(text) == Join(Reverse(Split(text)))

\* the category of an entities dict, None when it has none
CategoryOf(entities) ==
  IF "category" \in DOMAIN entities THEN entities.category ELSE None

\* C8: extract_entities sets the category to the first one of CategoryOrder
\* that has a keyword in the text, and to none when no keyword occurs; with
\* the same keywords in another order the category is the same.
C8_FirstCategoryWins ==
  result.fn = "extract_entities"
    => /\ CategoriesIn(user_message) # {}
            => /\ "category" \in DOMAIN result.value
               /\ result.value.category = CategoryOrder[Least(CategoriesIn(user_message))]
       /\ CategoriesIn(user_message) = {} => "category" \notin DOMAIN result.value
       /\ CategoriesIn(Backwards(user_message)) = CategoriesIn(user_message)
            => CategoryOf(extract_entities(Backwards(user_message)))
                 = CategoryOf(result.value)

\* 'shoes phone' names Footwear before Electronics, and yields Electronics
C8_Witness ==
  /\ result.fn = "extract_entities"
  /\ user_message = "shoes phone"
  /\ CategoriesIn(user_message) = {1, 2}
  /\ result.value.category = "Electronics"

\* the price patterns in the order C9 gives them: 'under N', 'below N',
\* 'less than N', 'N to M', 'between N and M'
PatternOrder ==
  << [pre |-> "under ",     groups |-> 1, sep |-> ""],
     [pre |-> "below ",     groups |-> 1, sep |-> ""],
     [pre |-> "less than ", groups |-> 1, sep |-> ""],
     [pre |-> "",           groups |-> 2, sep |-> " to "],
     [pre |-> "between ",   groups |-> 2, sep |-> " and "] >>

\* the places in PatternOrder of the patterns that match somewhere in the text
PatternsIn(text) ==
  {k \in DOMAIN PatternOrder : re_search(PatternOrder[k], Lower(text)) # <<>>}

\* the numbers of the first pattern of PatternOrder that matches
FirstPrice(text) == re_search(PatternOrder[Least(PatternsIn(text))], Lower(text))

\* C9: extract_entities applies the first pattern of PatternOrder that
\* matches, and no other: a single-bound pattern sets max_price alone, a
\* range pattern sets min_price and max_price, and no match sets neither.
C9_FirstPricePatternWins ==
  result.fn = "extract_entities"
    => /\ PatternsIn(user_message) = {}
            => {"min_price", "max_price"} \cap DOMAIN result.value = {}
       /\ PatternsIn(user_message) # {} /\ Least(PatternsIn(user_message)) <= 3
            => /\ "max_price" \in DOMAIN result.value
               /\ result.value.max_price = ParseInt(FirstPrice(user_message)[1])
               /\ "min_price" \notin DOMAIN result.value
       /\ PatternsIn(user_message) # {} /\ Least(PatternsIn(user_message)) >= 4
            => /\ {"min_price", "max_price"} \subseteq DOMAIN result.value
               /\ result.value.min_price = ParseInt(FirstPrice(user_message)[1])
               /\ result.value.max_price = ParseInt(FirstPrice(user_message)[2])

\* '10 to 20 under 50' holds 'under A' and 'B to C', and yields max_price A alone
C9_Witness ==
  /\ result.fn = "extract_entities"
  /\ user_message = "10 to 20 under 50"
  /\ PatternsIn(user_message) = {1, 4}
  /\ result.value.max_price = 50
  /\ "min_price" \notin DOMAIN result.value

AnsweredSearch ==
  IF /\ reply.status = 200
     /\ "conversation_history" \in DOMAIN reply
     /\ classified[Answered].type = "product_search"
     /\ model <=> generated # NotCalled
  THEN searched[Answered, generated].matched
  ELSE <<>>

\* C11: every relevance_score of a product that a product search returned
\* (model-assisted, Basic Keyword Matcher or Relevance Scorer) lies between
\* 0.0 and 1.0.
C11_ScoresInUnitInterval ==
  \A i \in DOMAIN AnsweredSearch :
    "relevance_score" \in DOMAIN AnsweredSearch[i]
      => /\ AnsweredSearch[i].relevance_score >= 0
         /\ AnsweredSearch[i].relevance_score <= 100

\* the products the Relevance Scorer matched in the call of result: the call
\* is one of handle_product_search, and it did not end in the no-products reply
ScorerMatched ==
  IF result.fn = "handle_product_search" /\ result.value.extra # NoData
  THEN result.value.matched ELSE <<>>

\* the score of the code for a product of the call of result
ScoreInCall(product) ==
  calculate_product_relevance(result.user_message, product,
                              extract_entities(result.user_message))

\* C12: the Relevance Scorer path returns no product that scores 0.3 or
\* less, and returns its products by score descending, equal scores by
\* rating descending.
C12_ScorerThresholdAndOrder ==
  result.fn = "handle_product_search"
    => /\ \A i \in DOMAIN result.mock_products :
            ScoreInCall(result.mock_products[i]) <= 30
              => \A k \in DOMAIN ScorerMatched :
                   ScorerMatched[k].id # result.mock_products[i].id
       /\ \A k \in DOMAIN ScorerMatched : ScorerMatched[k].relevance_score > 30
       /\ \A j, k \in DOMAIN ScorerMatched :
            j < k => \/ ScorerMatched[j].relevance_score > ScorerMatched[k].relevance_score
                     \/ /\ ScorerMatched[j].relevance_score = ScorerMatched[k].relevance_score
                        /\ ScorerMatched[j].rating >= ScorerMatched[k].rating

\* a call in which a product of the catalog is left out for its score, and
\* two matches of one score are told apart by their ratings
C12_Witness ==
  /\ result.fn = "handle_product_search"
  /\ \E i \in DOMAIN result.mock_products : ScoreInCall(result.mock_products[i]) <= 30
  /\ \E j, k \in DOMAIN ScorerMatched :
       /\ j < k
       /\ ScorerMatched[j].relevance_score = ScorerMatched[k].relevance_score
       /\ ScorerMatched[j].rating > ScorerMatched[k].rating
       /\ \E a, b \in DOMAIN result.mock_products :
            /\ a < b
            /\ result.mock_products[a].id = ScorerMatched[k].id
            /\ result.mock_products[b].id = ScorerMatched[j].id

\* C13 as claimed: for 'show me wireless headphones under 3000' the Relevance
\* Scorer returns the Sony WH-CH720N Wireless Headphones (prod_001, price 2999,
\* rating 4.5) before every product priced 5000.
C13_SonyAboveFiveThousand ==
  (/\ result.fn = "handle_product_search"
   /\ result.user_message = "show me wireless headphones under 3000"
   /\ \E i \in DOMAIN result.mock_products : result.mock_products[i].id = "prod_001")
    => \E s \in DOMAIN ScorerMatched :
         /\ ScorerMatched[s].id = "prod_001"
         /\ \A k \in DOMAIN ScorerMatched : ScorerMatched[k].price = 5000 => s < k

\* C13, amended: for that query the Sony headphones score the clamp value
\* 1.0, and are returned before every product priced 5000 that scores less
\* than 1.0 or is rated below 4.5; a product priced 5000 that also scores
\* 1.0 and is rated above 4.5 is returned before them.
C13_SonyAboveUnlessClampTie ==
  (/\ result.fn = "handle_product_search"
   /\ result.user_message = "show me wireless headphones under 3000"
   /\ \E i \in DOMAIN result.mock_products : result.mock_products[i].id = "prod_001")
    => \E s \in DOMAIN ScorerMatched :
         /\ ScorerMatched[s].id = "prod_001"
         /\ ScorerMatched[s].relevance_score = 100
         /\ \A k \in DOMAIN ScorerMatched :
              ScorerMatched[k].price = 5000
                => /\ (ScorerMatched[k].relevance_score < 100 \/ ScorerMatched[k].rating < 45)
                        => s < k
                   /\ (ScorerMatched[k].relevance_score = 100 /\ ScorerMatched[k].rating > 45)
                        => k < s

\* a call that returns the Sony headphones after one product priced 5000 and
\* before another
C13_Witness ==
  /\ result.fn = "handle_product_search"
  /\ result.user_message = "show me wireless headphones under 3000"
  /\ \E j, s, k \in DOMAIN ScorerMatched :
       /\ j < s /\ s < k
       /\ ScorerMatched[s].id = "prod_001"
       /\ ScorerMatched[j].price = 5000
       /\ ScorerMatched[k].price = 5000

\* the recommendations the call of result returned: the call is one of
\* generate_smart_recommendations, and it did not raise
Recommended ==
  IF result.fn = "generate_smart_recommendations" /\ ~result.value.raised
  THEN result.value.value ELSE <<>>

\* C14: generate_smart_recommendations never returns the added product.
C14_NeverTheAddedProduct ==
  \A k \in DOMAIN Recommended : Recommended[k].id # result.added_product.id

CompanionReason == "Perfect companion for your " \o result.added_product.name
SameCategoryReason == "Another great " \o Lower(result.added_product.category) \o " option"
CrossReason == "Customers who bought similar items also purchased this"

\* what the three passes append in the call of result, in their order
Passes ==
  IF result.fn # "generate_smart_recommendations" THEN <<>>
  ELSE AllWithReason(Companions(result.added_product, result.all_products),
                     CompanionReason)
    \o AllWithReason(SameCategory(result.added_product, result.all_products),
                     SameCategoryReason)
    \o AllWithReason(CrossCategory(result.cart_items, result.all_products), CrossReason)

\* the places of passes where an id occurs for the first time
FirstPlaces(passes) ==
  {i \in DOMAIN passes : \A j \in 1..(i - 1) : passes[j].id # passes[i].id}

\* the place in passes of the first recommendation with this id, 0 if none
PlaceOf(passes, id) ==
  LET places == {i \in DOMAIN passes : passes[i].id = id}
  IN  IF places = {} THEN 0 ELSE Least(places)

\* recommended is the first five distinct ids of passes, each as its first
\* occurrence there; place[k] is the place of recommended[k] in passes
FirstFiveAt(recommended, passes, place) ==
  /\ Len(recommended) <= 5
  /\ \A j, k \in DOMAIN recommended : j # k => recommended[j].id # recommended[k].id
  /\ \A k \in DOMAIN recommended : place[k] # 0 /\ recommended[k] = passes[place[k]]
  /\ \A j, k \in DOMAIN recommended : j < k => place[j] < place[k]
  /\ \A i \in FirstPlaces(passes) :
       \/ \E k \in DOMAIN recommended : place[k] = i
       \/ /\ Len(recommended) = 5
          /\ \A k \in DOMAIN recommended : place[k] < i
FirstFive(recommended, passes) ==
  FirstFiveAt(recommended, passes,
              List([k \in DOMAIN recommended |-> PlaceOf(passes, recommended[k].id)]))

\* C15: generate_smart_recommendations returns at most five recommendations
\* of pairwise distinct ids: the first five distinct ids of what the
\* complementary, same-category and cross-category passes append, each as
\* its first occurrence there, reason included.
C15_FirstFiveDistinct ==
  result.fn = "generate_smart_recommendations" /\ ~result.value.raised
    => FirstFive(Recommended, Passes)

\* more than five distinct ids, one of them twice with two reasons, the
\* first of which is returned
TwiceAndMore(recommended, passes) ==
  /\ Len(recommended) = 5
  /\ Cardinality(FirstPlaces(passes)) > 5
  /\ \E i, j \in DOMAIN passes :
       /\ i < j
       /\ passes[i].id = passes[j].id
       /\ passes[i].reason # passes[j].reason
       /\ \E k \in DOMAIN recommended : recommended[k] = passes[i]

\* a call whose passes append more than five distinct ids, one of them twice
\* with two reasons
C15_Witness ==
  /\ result.fn = "generate_smart_recommendations"
  /\ TwiceAndMore(Recommended, Passes)

\* the products of a catalog that the cross-category pass may take for a
\* cart: rated 4.0 or more, of a category that is not in the cart
Qualifying(cart, all_products) ==
  {i \in DOMAIN all_products :
     /\ all_products[i].rating >= 40
     /\ \A c \in DOMAIN cart : cart[c].category # all_products[i].category}

\* the call of result is one with a cart of two categories or more and a
\* qualifying product in the catalog
CrossCase ==
  /\ result.fn = "generate_smart_recommendations"
  /\ ~result.value.raised
  /\ Cardinality({result.cart_items[c].category : c \in DOMAIN result.cart_items}) >= 2
  /\ Qualifying(result.cart_items, result.all_products) # {}

\* the places of a list of recommendations with the cross-category reason
CrossPlaces(recommended) ==
  {k \in DOMAIN recommended : recommended[k].reason = CrossReason}

\* C16 as claimed: with a cart of two categories or more and a qualifying
\* product in the catalog, exactly one recommendation returned has the
\* cross-category reason.
C16_ExactlyOneCrossSuggestion ==
  CrossCase => Cardinality(CrossPlaces(Recommended)) = 1

\* the ids of the recommendations of passes with another reason
EarlierIds(passes) ==
  {passes[i].id : i \in {j \in DOMAIN passes : passes[j].reason # CrossReason}}

\* at most one cross-category recommendation, that of the product first; it
\* is there exactly when the ids before it are fewer than five, and not its own
CrossUnlessShadowed(recommended, earlier, first) ==
  /\ Cardinality(CrossPlaces(recommended)) <= 1
  /\ \A k \in CrossPlaces(recommended) : recommended[k].id = first.id
  /\ CrossPlaces(recommended) # {}
       <=> (first.id \notin earlier /\ Cardinality(earlier) < 5)

\* C16, amended: in that case at most one recommendation returned has the
\* cross-category reason, and it is the first qualifying product of the
\* catalog; there is one exactly when the earlier two passes did not append
\* that product and appended fewer than five distinct ids.
C16_CrossSuggestionUnlessShadowed ==
  CrossCase
    => CrossUnlessShadowed(
         Recommended, EarlierIds(Passes),
         result.all_products[Least(Qualifying(result.cart_items, result.all_products))])

\* a call in that case that returns the cross-category recommendation, with
\* a second qualifying product in the catalog
C16_Witness ==
  /\ CrossCase
  /\ CrossPlaces(Recommended) # {}
  /\ Cardinality(Qualifying(result.cart_items, result.all_products)) >= 2

\* C17: every chat turn for a non-empty message appends exactly two entries
\* to the conversation log, the user message and then the assistant reply,
\* and leaves the entries before them as they were.
C17_TurnAppendsTwo ==
  [][\A m \in Utterances \ {""} :
       TurnOf(m)
         => /\ Len(conversation_history') = Len(conversation_history) + 2
            /\ SubSeq(conversation_history', 1, Len(conversation_history))
                 = conversation_history
            /\ conversation_history'[Len(conversation_history) + 1].role = "user"
            /\ conversation_history'[Len(conversation_history) + 2].role = "assistant"]_vars

\* h is the last ten entries of log, or all of them when they are fewer,
\* and ends with the user entry of m and an assistant entry of this text
WindowOf(h, log, m, text) ==
  /\ Len(h) = (IF Len(log) < 10 THEN Len(log) ELSE 10)
  /\ \A i \in DOMAIN h : h[i] = log[Len(log) - Len(h) + i]
  /\ Len(h) >= 2
  /\ h[Len(h) - 1] = [role |-> "user", message |-> m]
  /\ h[Len(h)] = [role |-> "assistant", message |-> text]

\* C18: the conversation_history of the response of a successful chat turn
\* is the last min(10, n) entries of the n-entry log in log order, ending with
\* the user and assistant entries of this turn; no step shortens the log or
\* changes an entry of it.
C18_LastTenReturned ==
  [][/\ Len(conversation_history') >= Len(conversation_history)
     /\ SubSeq(conversation_history', 1, Len(conversation_history)) = conversation_history
     /\ \A m \in LongTalk :
          TurnOf(m) /\ reply'.status = 200
            => WindowOf(reply'.conversation_history, conversation_history', m,
                        reply'.response)]_vars

\* a successful turn has brought the log to twelve entries, and its response
\* carries the last ten of them
C18_Witness ==
  /\ reply.status = 200
  /\ Len(conversation_history) = 12
  /\ Len(reply.conversation_history) = 10
  /\ reply.conversation_history[1] = conversation_history[3]
  /\ reply.conversation_history[1] # conversation_history[1]

\* C19: after any sequence of chat turns and cart requests, every entry of
\* the cart has a quantity of 1 or more.
C19_QuantityAtLeastOne ==
  \A i \in DOMAIN cart_items : cart_items[i].quantity >= 1

\* no catalog id is a substring of the utterance, and of no product name do
\* more than three tenths of the words occur in the lowered utterance
Unresolvable(m) ==
  \A i \in DOMAIN mock_products :
    LET words == Split(Lower(mock_products[i].name))
        hits  == {k \in DOMAIN words : Contains(Lower(m), words[k])}
    IN  /\ ~Contains(m, mock_products[i].id)
        /\ 10 * Cardinality(hits) <= 3 * Len(words)

\* the utterances labelled add_to_cart that name no product
unresolvable ==
  {m \in Utterances \ {""} : classified[m].type = "add_to_cart" /\ Unresolvable(m)}

\* C20: an add_to_cart turn that cannot resolve a product answers with the
\* product-not-found reply, with no products, no related products and no
\* structured data, and leaves the cart as it was.
C20_NotFoundChangesNothing ==
  [][\A m \in unresolvable :
       TurnOf(m)
         => /\ reply'.status = 200
            /\ reply'.response = "Product not found!"
            /\ reply'.products = <<>>
            /\ reply'.related_products = <<>>
            /\ reply'.total_count = 0
            /\ DOMAIN reply' = PlainKeys
            /\ reply'.cart_items = cart_items
            /\ cart_items' = cart_items]_vars

\* such a turn has been answered while the cart held an entry
C20_Witness ==
  /\ reply.status = 200
  /\ "conversation_history" \in DOMAIN reply
  /\ Answered \in unresolvable
  /\ cart_items # <<>>

\* C21: a chat turn handled as greeting, product_search or cart_view leaves
\* the cart, its entries, their order and their quantities, as it was.
C21_OnlyAddToCartChangesCart ==
  [][\A m \in Utterances \ {""} :
       TurnOf(m) /\ classified[m].type \in {"greeting", "product_search", "cart_view"}
         => /\ cart_items' = cart_items
            /\ reply'.status = 200
            /\ reply'.cart_items = cart_items]_vars

\* a cart_view turn has been answered while the cart held an entry
C21_Witness ==
  /\ reply.status = 200
  /\ "conversation_history" \in DOMAIN reply
  /\ classified[Answered].type = "cart_view"
  /\ cart_items # <<>>

\* the id list that the answer of the model carries, for the answers whose
\* '[' ... ']' span is JSON
listed_ids ==
  [ai \in {a \in AIResponses \ unusable :
             Contains(Strip(a.text), "[") /\ Contains(Strip(a.text), "]")} |->
     json_loads(Slice(Strip(ai.text), Find(Strip(ai.text), "["),
                      RFind(Strip(ai.text), "]"))).value]

\* one pair of id and score for every position of ids, from position k on,
\* that holds a catalog id: the position i, counted from 0, scores 1.0 - 0.1 i
RECURSIVE ScoredByPosition(_, _)
ScoredByPosition(ids, k) ==
  IF k > Len(ids) THEN <<>>
  ELSE (IF \E i \in DOMAIN mock_products : mock_products[i].id = ids[k]
        THEN << [id |-> ids[k], relevance_score |-> 100 - 10 * (k - 1)] >>
        ELSE <<>>)
       \o ScoredByPosition(ids, k + 1)

\* C22: on the path with the model, the entry for the id at 0-based position i
\* of the id list has relevance_score 1.0 - 0.1 i, also when the same id occurs
\* at several positions; ids that are not catalog ids give no entry and the
\* entries keep the order of the id list.
C22_ScoreByPosition ==
  [][\A m \in Utterances \ {""} :
       SearchTurn(m) /\ generated' \in DOMAIN listed_ids \ no_ids
         => /\ reply'.status = 200
            /\ reply'.products = Take(ScoredByPosition(listed_ids[generated'], 1), 8)]_vars

C25_HeadphoneBucket ==
  result.fn = "basic_product_search"
    => \A k \in DOMAIN result.value :
         ContainsAny(BasicText(result.value[k]), headphone_keywords)

\* the query matches no product of the catalog: it names no category, price
\* bound or brand, and none of its words longer than 2 is in a product text
Unmatched(message, products) ==
  /\ extract_entities(message) = EmptyDict
  /\ \A i \in DOMAIN products :
       KeywordScore(Split(Lower(message)), Lower(ScorerText(products[i])), 20) = 0

\* C26: with no model, a product search whose utterance matches no product
\* of the catalog has no product above the threshold and is answered by the
\* no-results reply.
C26_NoMatchNoResults ==
  (/\ result.fn = "handle_product_search"
   /\ analyze_user_intent(result.user_message).type = "product_search"
   /\ Unmatched(result.user_message, result.mock_products))
    => /\ result.value.extra = NoData
       /\ result.value.response =
            "No exact matches found for '" \o result.user_message \o "'"

\* C27: a chat turn that ends in an error response leaves the cart as it was:
\* a turn that has inserted an entry or incremented a quantity returns the
\* cart-updated reply, in every cart that chat turns and the cart requests
\* add, update, remove and clear can make.
C27_ErrorTurnKeepsCart ==
  [][\A m \in Utterances \ {""} :
       TurnOf(m)
         => /\ reply'.status # 200 => cart_items' = cart_items
            /\ cart_items' # cart_items
                 => /\ reply'.status = 200
                    /\ "action" \in DOMAIN reply'
                    /\ reply'.action = "cart_updated"
                    /\ reply'.cart_items = cart_items']_vars

\* the eight labels of the intent table
IntentLabels ==
  {"greeting", "add_to_cart", "cart_view", "product_details", "recommendations",
   "price_inquiry", "compare", "product_search"}

\* what handle_general_query says of the message m
GeneralReply(m) == handle_general_query(m, <<>>).response

\* C28: analyze_user_intent returns neither the label general nor any label
\* outside the eight labels of its table, so no chat turn is answered by the
\* general sub-dispatch.
C28_NeverGeneral ==
  [][\A m \in Utterances \ {""} :
       TurnOf(m)
         => /\ classified[m].type \in IntentLabels
            /\ reply'.status = 200 => reply'.response # GeneralReply(m)]_vars

\* a turn whose utterance holds no pattern of the table has been answered
C28_Witness ==
  /\ reply.status = 200
  /\ "conversation_history" \in DOMAIN reply
  /\ classified[Answered].confidence = 6
  /\ classified[Answered].type = "product_search"

\* C29: when requests run one at a time, after any chat add-to-cart turns and
\* cart requests the cart holds at most one entry per product id and every
\* entry is of a catalog product; a request that adds a product the cart holds
\* changes the quantity of that entry and nothing else, one that adds another
\* product appends its entry, and a request answered 404 (add of an unknown
\* id, update of an id the cart does not hold) leaves the cart as it was.
C29_OneEntryPerProduct ==
  [][/\ \A i, j \in DOMAIN cart_items' :
          i # j => cart_items'[i].id # cart_items'[j].id
     /\ \A i \in DOMAIN cart_items' :
          \E p \in DOMAIN mock_products : mock_products[p].id = cart_items'[i].id
     /\ Len(cart_items') = Len(cart_items)
          => /\ \A i \in DOMAIN cart_items :
                  cart_items'[i] = [quantity |-> cart_items'[i].quantity] @@ cart_items[i]
             /\ Cardinality({i \in DOMAIN cart_items : cart_items'[i] # cart_items[i]}) <= 1
     /\ Len(cart_items') > Len(cart_items)
          => /\ Len(cart_items') = Len(cart_items) + 1
             /\ SubSeq(cart_items', 1, Len(cart_items)) = cart_items
     /\ reply'.status = 404 => cart_items' = cart_items]_vars

\* a cart of two products, one of them with quantity 2, after a request that was
\* answered 404
C29_Witness ==
  /\ Len(cart_items) = 2
  /\ \E i \in DOMAIN cart_items : cart_items[i].quantity = 2
  /\ reply.status = 404

\* the related products of a search result do not hold a top match, are rated
\* 4.0 or more, share a category with a top match and are five at most
RelatedApart(found) ==
  LET base == Take(found.matched, 3)
  IN  /\ Len(found.related) <= 5
      /\ \A r \in DOMAIN found.related :
           /\ \A b \in DOMAIN base : found.related[r].id # base[b].id
           /\ found.related[r].rating >= 40
           /\ \E b \in DOMAIN base : found.related[r].category = base[b].category

\* C30: the related products returned with a product search hold no product
\* whose id is that of one of the (up to three) top matches, whether the
\* search went by the model, by the Basic Keyword Matcher or by the Relevance
\* Scorer; they are rated 4.0 or more, share a category with a top match and
\* are five at most.
C30_RelatedExcludesMatched ==
  (/\ reply.status = 200
   /\ "conversation_history" \in DOMAIN reply
   /\ classified[Answered].type = "product_search"
   /\ model <=> generated # NotCalled)
    => /\ RelatedApart(searched[Answered, generated])
       /\ \A r \in DOMAIN reply.related_products :
            \A k \in 1..Min(3, Len(reply.products)) :
              reply.related_products[r] # reply.products[k].id

\* the entries of the cart for the product of the race, and their quantities
RaceEntries == {i \in DOMAIN cart_items : cart_items[i].id = RaceProduct.id}
RECURSIVE TotalQuantity(_)
TotalQuantity(cart) ==
  IF cart = <<>> THEN 0 ELSE Head(cart).quantity + TotalQuantity(Tail(cart))

\* the requests that have been answered
Completed == {t \in DOMAIN in_flight : in_flight[t].pc = "responded"}

\* two requests are between the lookup, which found no entry, and the insert
BothBeforeInsert ==
  \E a, b \in DOMAIN in_flight :
    /\ a # b
    /\ in_flight[a].pc = "looked_up" /\ in_flight[a].existing_item = 0
    /\ in_flight[b].pc = "looked_up" /\ in_flight[b].existing_item = 0

\* two requests are before the write of the quantity of one entry, and both
\* have read the same quantity
BothBeforeWrite ==
  \E a, b \in DOMAIN in_flight :
    /\ a # b
    /\ in_flight[a].pc = "loaded" /\ in_flight[b].pc = "loaded"
    /\ in_flight[a].existing_item = in_flight[b].existing_item
    /\ in_flight[a].quantity = in_flight[b].quantity

\* the cart counts fewer of the product than adds have been answered
LostUpdate == TotalQuantity(cart_items) < Cardinality(Completed)

\* C24: the cart has no concurrency control.  Two add requests for one
\* product that are both between the lookup of the entry and the insert leave
\* the cart with two entries of that product; two that are both between the
\* read and the write of the quantity leave it with a quantity smaller than
\* the number of completed adds.
C24_RacingAddsCorruptCart ==
  /\ BothBeforeInsert ~> Cardinality(RaceEntries) >= 2
  /\ BothBeforeWrite ~> LostUpdate

\* a cart with two entries of the product that also lost an update
C24_Witness ==
  /\ in_flight # <<>>
  /\ Cardinality(RaceEntries) >= 2
  /\ LostUpdate
=============================================================================
